---------------------------- MODULE Spec2Model ----------------------------
(***************************************************************************)
(* RepoMan: the document store (db_logical.py, db_operations.py), the      *)
(* incremental indexer (index.py) and the query projection                 *)
(* (cli_commands/query.py), as state machines.                             *)
(*                                                                         *)
(* Python strings that the code compares, lower-cases or sorts are         *)
(* sequences of code points (<<116,120,116>> is "txt"), so that            *)
(* str.lower() and the lexicographic order of str are computed, not        *)
(* assumed.  Python values of different types never compare equal: a       *)
(* pathlib.Path is [t |-> "Path", v |-> ...], a str is [t |-> "str", ...], *)
(* a peewee model instance is [t |-> "Document", ...].                     *)
(***************************************************************************)
EXTENDS Integers, Sequences, FiniteSets, Bags, TLC

VARIABLES
    document,       \* table document      : set of rows [id, path, suffix, last_mod]
    document_fts,   \* table document_fts  : set of rows [rowid, path, body]
    document_tag,   \* table document_tag  : bag of rows [doc_id, tag]
    document_link,  \* table document_link : bag of rows [doc_id, url, desc]
    worker,         \* per process: its position inside upsert_doc and its locals
    busyLeft,       \* how many more times the store may answer "database is locked"
    callsLeft,      \* how many more calls of upsert_doc the behaviour makes
    fs,             \* the directory tree: file number -> its mtime (0: no such file)
    sel,            \* the call of _paths_to_index: arguments and returned paths
    qres,           \* the query command: parameters, merged and projected results
    run,            \* the call of index(): the pool, its tasks and PROGRESS
    call,           \* a call of a helper of index.py: its arguments and what it returned
    session         \* the prompt loop of cli.py and the browse loop of the query command

vars == <<document, document_fts, document_tag, document_link, worker, busyLeft,
          callsLeft, fs, sel, qres, run, call, session>>

store == <<document, document_fts, document_tag, document_link>>

-----------------------------------------------------------------------------
(* Bounds of the model *)

NumWorkers == 2     \* processes that may be inside upsert_doc at once
MaxCalls   == 3     \* calls of upsert_doc per behaviour
MaxBusy    == 2     \* contention events ("database is locked") per behaviour
NumVersions == 2    \* contents a path can be (re)indexed with

(* Program constants *)

Tries == 10         \* @retry(OperationalError, tries=10, delay=1.0)
Delay == 1          \* delay=1.0: seconds slept after the first failed attempt
Backoff == 2        \* backoff=2, the default of retry()

-----------------------------------------------------------------------------
(* Python str as a sequence of code points *)

Min(a, b) == IF a < b THEN a ELSE b

\* str.lower() on ASCII
Lower(s) == [i \in DOMAIN s |-> IF s[i] \in 65..90 THEN s[i] + 32 ELSE s[i]]

\* a < b for str (lexicographic by code point)
StrLess(a, b) ==
    \E k \in 1..(Min(Len(a), Len(b)) + 1) :
        /\ \A j \in 1..(k - 1) : a[j] = b[j]
        /\ \/ k > Len(a) /\ k <= Len(b)
           \/ k <= Len(a) /\ k <= Len(b) /\ a[k] < b[k]

StrLeq(a, b) == a = b \/ StrLess(a, b)


\* str.split(sep) for a one-character separator: the pieces, empty ones included
RECURSIVE SplitAt(_, _, _)
SplitAt(s, sep, cur) ==
    IF s = <<>> THEN <<cur>>
    ELSE IF Head(s) = sep THEN <<cur>> \o SplitAt(Tail(s), sep, <<>>)
    ELSE SplitAt(Tail(s), sep, Append(cur, Head(s)))

Split(s, sep) == SplitAt(s, sep, <<>>)

Range(f) == {f[i] : i \in DOMAIN f}

SetMax(S) == CHOOSE x \in S : \A y \in S : y <= x

None == [t |-> "NoneType", v |-> <<>>]

\* pathlib.Path(s) and str(path): the same text, different Python types
Path(s) == [t |-> "Path", v |-> s]
Str(s)  == [t |-> "str", v |-> s]
str(x)  == Str(x.v)

-----------------------------------------------------------------------------
(* The documents upsert_doc is called with (the so_doc of index.py:130-138) *)

\* "/r/a.txt", "/r/B.TXT", "/r/c.pdf"
PathText(n) ==
    CASE n = 1 -> <<47, 114, 47, 97, 46, 116, 120, 116>>
      [] n = 2 -> <<47, 114, 47, 66, 46, 84, 88, 84>>
      [] OTHER -> <<47, 114, 47, 99 + (n - 3), 46, 112, 100, 102>>

NumPaths == 3       \* paths the store model upserts

Digit(n) == 48 + n

\* "2021-12-0v 10:59": the fixed-width format of constants.py:16
LastModOf(v) ==
    <<50, 48, 50, 49, 45, 49, 50, 45, 48, Digit(v), 32, 49, 48, 58, 53, 57>>

\* "t1", "t2", ...
TagOf(v) == <<116, Digit(v)>>

\* "u1", "u2", ...
UrlOf(v) == <<117, Digit(v)>>

\* body text: "t1 'x'\n" for odd versions (a quote and a newline to cleanse),
\* "t1" for even ones
BodyOf(v) ==
    IF v % 2 = 1 THEN Str(<<116, 49, 32, 39, 120, 39, 10>>) ELSE Str(<<116, 49>>)

\* s[1:]
Slice1(s) == IF s = <<>> THEN <<>> ELSE Tail(s)

\* path_.suffix of pathlib: from the last "." of the name, unless the name
\* starts or ends with it
PathName(s) == LET parts == Split(s, 47) IN parts[Len(parts)]

PathSuffix(s) ==
    LET name == PathName(s)
        dots == {i \in DOMAIN name : name[i] = 46}
    IN  IF dots = {} THEN <<>>
        ELSE LET i == SetMax(dots)
             IN  IF i > 1 /\ i < Len(name) THEN SubSeq(name, i, Len(name)) ELSE <<>>

\* index.py:130-138: a so_doc for path number n with contents v
MkDoc(n, v) ==
    [ path_  |-> Path(PathText(n)),
      suffix |-> Slice1(Lower(PathSuffix(PathText(n)))),
      lmod   |-> LastModOf(v),
      body   |-> BodyOf(v),
      tags   |-> <<Str(TagOf(v))>>,
      links  |-> IF v % 2 = 1 THEN <<[url |-> Str(UrlOf(v)), desc |-> None]>> ELSE <<>> ]

DocInputs == {MkDoc(n, v) : n \in 1..NumPaths, v \in 1..NumVersions}

NoDoc == [path_ |-> None, suffix |-> <<>>, lmod |-> <<>>, body |-> None,
          tags |-> <<>>, links |-> <<>>]


-----------------------------------------------------------------------------
(* The store: one SQL statement is one atomic step (peewee runs in          *)
(* autocommit; connection_context() opens no transaction)                  *)

Workers == 1..NumWorkers

\* Document.select().where(Document.path == str(path_)), in rowid order
RECURSIVE RowsById(_)
RowsById(S) ==
    IF S = {} THEN <<>>
    ELSE LET d == CHOOSE x \in S : \A y \in S : x.id <= y.id
         IN  <<d>> \o RowsById(S \ {d})

SelectByPath(docs, p) == RowsById({d \in docs : d.path = p.v})

\* rowid the document table gives the next INSERT (INTEGER PRIMARY KEY, no
\* AUTOINCREMENT: one more than the largest rowid in use)
NextRowId(docs) == IF docs = {} THEN 1 ELSE SetMax({d.id : d \in docs}) + 1

\* DELETE FROM t WHERE doc_id = id, on a bag of rows
DeleteByDocId(bag, id) ==
    [r \in {x \in DOMAIN bag : x.doc_id # id} |-> bag[r]]

InsertRow(bag, row) == bag (+) SetToBag({row})

\* foreign_keys = 1 (db_physical.py:13): rows of document_tag and
\* document_link that reference document id
Referenced(tags, links, id) ==
    \/ \E r \in DOMAIN tags  : r.doc_id = id
    \/ \E r \in DOMAIN links : r.doc_id = id

\* db_operations.py:126: a_doc.body.replace("'", '"').replace("\n", "") if a_doc.body else ""
Replace39(s) == [i \in DOMAIN s |-> IF s[i] = 39 THEN 34 ELSE s[i]]

Cleansed(body) ==
    IF body = None \/ body.v = <<>> THEN <<>>
    ELSE SelectSeq(Replace39(body.v), LAMBDA ch : ch # 10)

Idle ==
    [pc |-> "idle", a_doc |-> NoDoc, docs |-> <<>>, doc_id |-> 0, i |-> 0,
     mtries |-> 0, mdelay |-> 0, slept |-> <<>>, attempts |-> 0,
     locked |-> 0, existed |-> FALSE, err |-> "none"]


-----------------------------------------------------------------------------
(* The directory tree that is indexed *)

NumFiles == 4       \* files that may exist under the root
MaxMtime == 2       \* modification times a file goes through

\* "/r/a.txt", "/r/2021-12-03 n -- t1 t2.org", "/r/.git/c.txt", "/r/d.bin", ...
FilePath(n) ==
    CASE n = 1 -> <<47, 114, 47, 97, 46, 116, 120, 116>>
      [] n = 2 -> <<47, 114, 47, 50, 48, 50, 49, 45, 49, 50, 45, 48, 51, 32, 110,
                    32, 45, 45, 32, 116, 49, 32, 116, 50, 46, 111, 114, 103>>
      [] n = 3 -> <<47, 114, 47, 46, 103, 105, 116, 47, 99, 46, 116, 120, 116>>
      [] OTHER -> <<47, 114, 47, 100 + (n - 4), 46, 98, 105, 110>>

\* the root that is walked: "/r"
RootParts == 2      \* "/r/x" splits at "/" into "", "r", "x": two parts are the root

Files == 1..NumFiles

NoFiles == [n \in Files |-> 0]

\* strftime(DB_DATETIME_FORMAT) of st_mtime number k: "2021-12-0k 10:59"
MtimeText(k) == LastModOf(k)

NoSel == [status |-> "none", force |-> FALSE, suffix |-> <<>>, paths |-> {}]

NoParms == [query_string |-> <<>>, top_n |-> None, suffix |-> <<>>, sort_order |-> <<>>]

NoQuery == [status |-> "none", parms |-> NoParms, merged |-> <<>>, results |-> <<>>]

\* no helper has been called
NoCall == [fn |-> "none", args |-> <<>>, ret |-> <<>>]

\* the program is not at a prompt
NoSession == [at |-> "none"]

NoRun ==
    [status |-> "none", todo |-> {}, submitted |-> {}, taskq |-> <<>>,
     inflight |-> <<>>, outq |-> <<>>, handled |-> {}, stderr |-> <<>>, count |-> 0]

-----------------------------------------------------------------------------
(* upsert_doc and check_delete_existing, statement by statement *)

Init ==
    /\ document = {}
    /\ document_fts = {}
    /\ document_tag = EmptyBag
    /\ document_link = EmptyBag
    /\ worker = [w \in Workers |-> Idle]
    /\ busyLeft = MaxBusy
    /\ callsLeft = MaxCalls
    /\ fs = NoFiles
    /\ sel = NoSel
    /\ qres = NoQuery
    /\ run = NoRun
    /\ call = NoCall
    /\ session = NoSession

\* The store answers a write with OperationalError("database is locked")
\* when another connection holds the write lock past the timeout.
Contention(busy) ==
    /\ busy => busyLeft > 0
    /\ busyLeft' = IF busy THEN busyLeft - 1 ELSE busyLeft

\* f_retry that sleeps the same delay before every new attempt
RetryOnLocked_NoBackoff(r) ==
    IF r.mtries > 1
    THEN [r EXCEPT !.pc = "cde_select", !.mtries = @ - 1, !.docs = <<>>,
                   !.slept = Append(@, r.mdelay), !.attempts = @ + 1, !.locked = @ + 1]
    ELSE [r EXCEPT !.pc = "failed", !.err = "OperationalError", !.locked = @ + 1]

\* utils.py:142-156, f_retry: mtries, mdelay = tries, delay; an
\* OperationalError raised by an attempt made while mtries > 1 is caught
\* (time.sleep(mdelay), mtries -= 1, mdelay *= backoff, run f again); the
\* last attempt runs outside the try and its exception reaches the caller.
RetryOnLocked(r) ==
    IF r.mtries > 1
    THEN [r EXCEPT !.pc = "cde_select", !.mtries = @ - 1, !.docs = <<>>,
                   !.slept = Append(@, r.mdelay), !.mdelay = @ * Backoff,
                   !.attempts = @ + 1, !.locked = @ + 1]
    ELSE [r EXCEPT !.pc = "failed", !.err = "OperationalError", !.locked = @ + 1]

\* db_operations.py:107-152: a write of upsert_doc itself is not wrapped by
\* @retry; its OperationalError leaves upsert_doc at once.
RaiseLocked(r) ==
    [r EXCEPT !.pc = "failed", !.err = "OperationalError", !.locked = @ + 1]

RaiseIntegrity(r) == [r EXCEPT !.pc = "failed", !.err = "IntegrityError"]

\* upsert_doc(a_doc) is entered; check_delete_existing starts with mtries = tries
UpsertDoc(w) ==
    /\ worker[w].pc = "idle"
    /\ callsLeft > 0
    /\ callsLeft' = callsLeft - 1
    /\ \E d \in DocInputs :
         worker' = [worker EXCEPT ![w] =
                      [Idle EXCEPT !.pc = "cde_select", !.a_doc = d, !.mtries = Tries,
                                   !.mdelay = Delay, !.attempts = 1]]
    /\ UNCHANGED <<store, busyLeft, fs, sel, qres, run, call, session>>

\* db_operations.py:162-164: docs = Document.select()...; if not docs: return False
CdeSelect(w) ==
    LET r    == worker[w]
        docs == SelectByPath(document, str(r.a_doc.path_))
    IN  /\ r.pc = "cde_select"
        /\ worker' = [worker EXCEPT ![w] =
                        IF docs = <<>>
                        THEN [r EXCEPT !.pc = "save", !.existed = FALSE]
                        ELSE [r EXCEPT !.pc = "cde_del_tags", !.docs = docs]]
        /\ UNCHANGED <<store, busyLeft, callsLeft, fs, sel, qres, run, call, session>>

\* db_operations.py:167: DocumentTag.delete().where(DocumentTag.doc_id==doc.id)
CdeDeleteTags(w) ==
    LET r == worker[w] IN
    /\ r.pc = "cde_del_tags"
    /\ \E busy \in BOOLEAN :
         /\ Contention(busy)
         /\ IF busy
            THEN /\ worker' = [worker EXCEPT ![w] = RetryOnLocked(r)]
                 /\ UNCHANGED document_tag
            ELSE /\ document_tag' = DeleteByDocId(document_tag, Head(r.docs).id)
                 /\ worker' = [worker EXCEPT ![w] = [r EXCEPT !.pc = "cde_del_links"]]
    /\ UNCHANGED <<document, document_fts, document_link, callsLeft, fs, sel, qres, run, call, session>>

\* db_operations.py:168: DocumentLink.delete().where(DocumentLink.doc_id==doc.id)
CdeDeleteLinks(w) ==
    LET r == worker[w] IN
    /\ r.pc = "cde_del_links"
    /\ \E busy \in BOOLEAN :
         /\ Contention(busy)
         /\ IF busy
            THEN /\ worker' = [worker EXCEPT ![w] = RetryOnLocked(r)]
                 /\ UNCHANGED document_link
            ELSE /\ document_link' = DeleteByDocId(document_link, Head(r.docs).id)
                 /\ worker' = [worker EXCEPT ![w] = [r EXCEPT !.pc = "cde_del_fts"]]
    /\ UNCHANGED <<document, document_fts, document_tag, callsLeft, fs, sel, qres, run, call, session>>

\* db_operations.py:169: DocumentFTS.delete().where(DocumentFTS.path==doc.path)
CdeDeleteFts(w) ==
    LET r == worker[w] IN
    /\ r.pc = "cde_del_fts"
    /\ \E busy \in BOOLEAN :
         /\ Contention(busy)
         /\ IF busy
            THEN /\ worker' = [worker EXCEPT ![w] = RetryOnLocked(r)]
                 /\ UNCHANGED document_fts
            ELSE /\ document_fts' = {f \in document_fts : f.path # Head(r.docs).path}
                 /\ worker' = [worker EXCEPT ![w] = [r EXCEPT !.pc = "cde_del_doc"]]
    /\ UNCHANGED <<document, document_tag, document_link, callsLeft, fs, sel, qres, run, call, session>>

\* db_operations.py:170-171: doc.delete_instance(); after the last doc, return True
CdeDeleteDoc(w) ==
    LET r  == worker[w]
        id == Head(r.docs).id
    IN
    /\ r.pc = "cde_del_doc"
    /\ \E busy \in BOOLEAN :
         /\ Contention(busy)
         /\ IF busy
            THEN /\ worker' = [worker EXCEPT ![w] = RetryOnLocked(r)]
                 /\ UNCHANGED document
            ELSE IF Referenced(document_tag, document_link, id)
                    /\ \E d \in document : d.id = id
            THEN /\ worker' = [worker EXCEPT ![w] = RaiseIntegrity(r)]
                 /\ UNCHANGED document
            ELSE /\ document' = {d \in document : d.id # id}
                 /\ worker' = [worker EXCEPT ![w] =
                                 IF Tail(r.docs) = <<>>
                                 THEN [r EXCEPT !.pc = "save", !.docs = <<>>,
                                                !.existed = TRUE]
                                 ELSE [r EXCEPT !.pc = "cde_del_tags",
                                                !.docs = Tail(r.docs)]]
    /\ UNCHANGED <<document_fts, document_tag, document_link, callsLeft, fs, sel, qres, run, call, session>>

\* where upsert_doc goes after the full-text row, and after each tag and link
AfterFts(r) ==
    IF r.a_doc.tags # <<>> THEN [r EXCEPT !.pc = "ins_tag", !.i = 1]
    ELSE IF r.a_doc.links # <<>> THEN [r EXCEPT !.pc = "ins_link", !.i = 1]
    ELSE [r EXCEPT !.pc = "done"]

AfterTag(r) ==
    IF r.i < Len(r.a_doc.tags) THEN [r EXCEPT !.i = @ + 1]
    ELSE IF r.a_doc.links # <<>> THEN [r EXCEPT !.pc = "ins_link", !.i = 1]
    ELSE [r EXCEPT !.pc = "done"]

AfterLink(r) ==
    IF r.i < Len(r.a_doc.links) THEN [r EXCEPT !.i = @ + 1]
    ELSE [r EXCEPT !.pc = "done"]

\* db_operations.py:116-122: doc = Document(path=str(a_doc.path_), ...); doc.save()
DocSave(w) ==
    LET r  == worker[w]
        id == NextRowId(document)
    IN
    /\ r.pc = "save"
    /\ \E busy \in BOOLEAN :
         /\ Contention(busy)
         /\ IF busy
            THEN /\ worker' = [worker EXCEPT ![w] = RaiseLocked(r)]
                 /\ UNCHANGED document
            ELSE /\ document' = document \cup
                       {[id |-> id, path |-> str(r.a_doc.path_).v,
                         suffix |-> r.a_doc.suffix, last_mod |-> r.a_doc.lmod]}
                 /\ worker' = [worker EXCEPT ![w] =
                                 [r EXCEPT !.pc = "ins_fts", !.doc_id = id]]
    /\ UNCHANGED <<document_fts, document_tag, document_link, callsLeft, fs, sel, qres, run, call, session>>

\* db_operations.py:126-131: DocumentFTS.insert({rowid: doc.id, path, body: cleansed})
InsertFts(w) ==
    LET r == worker[w] IN
    /\ r.pc = "ins_fts"
    /\ \E busy \in BOOLEAN :
         /\ Contention(busy)
         /\ IF busy
            THEN /\ worker' = [worker EXCEPT ![w] = RaiseLocked(r)]
                 /\ UNCHANGED document_fts
            ELSE IF \E f \in document_fts : f.rowid = r.doc_id
            THEN /\ worker' = [worker EXCEPT ![w] = RaiseIntegrity(r)]
                 /\ UNCHANGED document_fts
            ELSE /\ document_fts' = document_fts \cup
                       {[rowid |-> r.doc_id, path |-> str(r.a_doc.path_).v,
                         body |-> Cleansed(r.a_doc.body)]}
                 /\ worker' = [worker EXCEPT ![w] = AfterFts(r)]
    /\ UNCHANGED <<document, document_tag, document_link, callsLeft, fs, sel, qres, run, call, session>>

\* db_operations.py:134-139: one DocumentTag.insert per tag of a_doc.tags
InsertTag(w) ==
    LET r == worker[w] IN
    /\ r.pc = "ins_tag"
    /\ \E busy \in BOOLEAN :
         /\ Contention(busy)
         /\ IF busy
            THEN /\ worker' = [worker EXCEPT ![w] = RaiseLocked(r)]
                 /\ UNCHANGED document_tag
            ELSE IF ~ \E d \in document : d.id = r.doc_id
            THEN /\ worker' = [worker EXCEPT ![w] = RaiseIntegrity(r)]
                 /\ UNCHANGED document_tag
            ELSE /\ document_tag' = InsertRow(document_tag,
                       [doc_id |-> r.doc_id, tag |-> r.a_doc.tags[r.i].v])
                 /\ worker' = [worker EXCEPT ![w] = AfterTag(r)]
    /\ UNCHANGED <<document, document_fts, document_link, callsLeft, fs, sel, qres, run, call, session>>

\* db_operations.py:142-150: one DocumentLink.insert per link of a_doc.links
InsertLink(w) ==
    LET r == worker[w] IN
    /\ r.pc = "ins_link"
    /\ \E busy \in BOOLEAN :
         /\ Contention(busy)
         /\ IF busy
            THEN /\ worker' = [worker EXCEPT ![w] = RaiseLocked(r)]
                 /\ UNCHANGED document_link
            ELSE IF ~ \E d \in document : d.id = r.doc_id
            THEN /\ worker' = [worker EXCEPT ![w] = RaiseIntegrity(r)]
                 /\ UNCHANGED document_link
            ELSE /\ document_link' = InsertRow(document_link,
                       [doc_id |-> r.doc_id, url |-> r.a_doc.links[r.i].url.v,
                        desc |-> r.a_doc.links[r.i].desc])
                 /\ worker' = [worker EXCEPT ![w] = AfterLink(r)]
    /\ UNCHANGED <<document, document_fts, document_tag, callsLeft, fs, sel, qres, run, call, session>>

\* upsert_doc has returned doc.id, or raised: the process is free again
UpsertReturn(w) ==
    /\ worker[w].pc \in {"done", "failed"}
    /\ worker' = [worker EXCEPT ![w] = Idle]
    /\ UNCHANGED <<store, busyLeft, callsLeft, fs, sel, qres, run, call, session>>

Next ==
    \E w \in Workers :
        \/ UpsertDoc(w)
        \/ CdeSelect(w)
        \/ CdeDeleteTags(w)
        \/ CdeDeleteLinks(w)
        \/ CdeDeleteFts(w)
        \/ CdeDeleteDoc(w)
        \/ DocSave(w)
        \/ InsertFts(w)
        \/ InsertTag(w)
        \/ InsertLink(w)
        \/ UpsertReturn(w)

Spec == Init /\ [][Next]_vars


-----------------------------------------------------------------------------
(* The store claims *)

DocsOfPath(p) == {d \in document : d.path = p.v}

\* C2: at most one Document row exists for any path, in every reachable
\* state, whatever the interleaving of the workers' upsert_doc calls.
C2_AtMostOneRowPerPath ==
    \A d1 \in document : \A d2 \in document : d1.path = d2.path => d1 = d2

\* the rows a completed upsert_doc(a) must have left for a's path: one
\* Document row, its full-text row, and exactly a's tags and links
FreshTags(a, id) ==
    [r \in {[doc_id |-> id, tag |-> a.tags[i].v] : i \in DOMAIN a.tags} |->
        Cardinality({i \in DOMAIN a.tags : a.tags[i].v = r.tag})]

FreshLinks(a, id) ==
    [r \in {[doc_id |-> id, url |-> a.links[i].url.v, desc |-> a.links[i].desc] :
              i \in DOMAIN a.links} |->
        Cardinality({i \in DOMAIN a.links :
                       a.links[i].url.v = r.url /\ a.links[i].desc = r.desc})]

RowsOfDoc(bag, id) == [r \in {x \in DOMAIN bag : x.doc_id = id} |-> bag[r]]

ReplacedBy(a, id) ==
    /\ DocsOfPath(str(a.path_)) =
         {[id |-> id, path |-> a.path_.v, suffix |-> a.suffix, last_mod |-> a.lmod]}
    /\ {f \in document_fts : f.path = a.path_.v \/ f.rowid = id} =
         {[rowid |-> id, path |-> a.path_.v, body |-> Cleansed(a.body)]}
    /\ RowsOfDoc(document_tag, id) = FreshTags(a, id)
    /\ RowsOfDoc(document_link, id) = FreshLinks(a, id)

\* C3: when upsert_doc completes for a path that was already indexed, exactly
\* one Document row exists for the path and its full-text, tag and link rows
\* are exactly the fresh ones.
C3_ReindexReplacesState ==
    [][\A w \in Workers :
         (worker[w].pc # "done" /\ worker'[w].pc = "done" /\ worker'[w].existed)
            => ReplacedBy(worker[w].a_doc, worker[w].doc_id)']_vars

\* C8: a document never fails on its first contention: an upsert that ended
\* with OperationalError has met contention more than once (the contended
\* step was tried again), in the deletion and in the insertion alike.
C8_ContentionIsRetried ==
    \A w \in Workers :
        (worker[w].pc = "failed" /\ worker[w].err = "OperationalError")
            => worker[w].locked > 1


-----------------------------------------------------------------------------
(* index.py: walker, get_last_mod, get_tags *)

\* constants.SKIP_DIRS: {".git"}
SKIP_DIRS == {<<46, 103, 105, 116>>}

\* constants.INCLUDE_EXTENSIONS: {".txt", ".md", ".py", ".org", ".pdf"}
INCLUDE_EXTENSIONS ==
    { <<46, 116, 120, 116>>, <<46, 109, 100>>, <<46, 112, 121>>,
      <<46, 111, 114, 103>>, <<46, 112, 100, 102>> }

\* the directory names between the root and the file
DirsOf(p) ==
    LET parts == Split(p, 47)
    IN  SubSeq(parts, RootParts + 1, Len(parts) - 1)

\* index.py:233-238, _walk: a directory whose name is in skip_dirs is not
\* descended into, so a file is reached iff none of its directories is
\* skipped (the skipped directory itself is yielded and has no suffix the
\* filter of walker accepts)
Walked(tree, skip_dirs) ==
    {n \in Files : tree[n] # 0 /\ \A i \in DOMAIN DirsOf(FilePath(n)) :
                                     DirsOf(FilePath(n))[i] \notin skip_dirs}

\* index.py:240-248, walker: arg_suffix given (a non-empty str) filters by
\* that suffix, otherwise by the allow-list
walker(tree, arg_suffix, skip_dirs, include_suffixes) ==
    {n \in Walked(tree, skip_dirs) :
        IF arg_suffix # <<>>
        THEN Lower(arg_suffix) = Slice1(Lower(PathSuffix(FilePath(n))))
        ELSE Lower(PathSuffix(FilePath(n))) \in include_suffixes}

IsDigit(ch) == ch \in 48..57

\* index.py:28, YYYY_MM_DD_PATTERN = ^(\d{4,4})-([01]\d)-([0123]\d)[- _T]
MatchesDate(name) ==
    /\ Len(name) >= 11
    /\ \A i \in 1..4 : IsDigit(name[i])
    /\ name[5] = 45
    /\ name[6] \in {48, 49} /\ IsDigit(name[7])
    /\ name[8] = 45
    /\ name[9] \in 48..51 /\ IsDigit(name[10])
    /\ name[11] \in {45, 32, 95, 84}

\* f"{int(mm):02d}" of a two-digit group
Fmt02(c1, c2) ==
    LET n == 10 * (c1 - 48) + (c2 - 48) IN <<48 + (n \div 10), 48 + (n % 10)>>

\* index.py:251-265, get_last_mod: the date in the file name with the time
\* zeroed, else the formatted st_mtime
get_last_mod(p, mtime) ==
    LET name == PathName(p)
    IN  IF MatchesDate(name)
        THEN SubSeq(name, 1, 4) \o <<45>> \o Fmt02(name[6], name[7]) \o <<45>>
               \o Fmt02(name[9], name[10]) \o <<32, 48, 48, 58, 48, 48>>
        ELSE MtimeText(mtime)

\* pathlib stem: the name without its suffix
PathStem(p) ==
    LET name == PathName(p)
    IN  SubSeq(name, 1, Len(name) - Len(PathSuffix(p)))

IsWord(ch) == ch \in 48..57 \/ ch \in 65..90 \/ ch \in 97..122 \/ ch = 95

\* the tail (\.(\w+))??$ of FILE_WITH_TAGS_REGEX: nothing, or "." and word
\* characters up to the end
IsExtTail(s) ==
    \/ s = <<>>
    \/ Len(s) >= 2 /\ s[1] = 46 /\ \A i \in 2..Len(s) : IsWord(s[i])

\* get_tags with a tag group that runs to the end of the stem
get_tags_WholeRest(p) ==
    LET stem == PathStem(p)
        seps == {i \in 2..(Len(stem) - 4) : SubSeq(stem, i, i + 3) = <<32, 45, 45, 32>>}
    IN  IF seps = {} THEN <<>>
        ELSE LET i == CHOOSE x \in seps : \A y \in seps : x <= y
             IN  SelectSeq(Split(SubSeq(stem, i + 4, Len(stem)), 32), LAMBDA t : t # <<>>)

\* index.py:27 and 268-277, get_tags: (.+?) -- (.+?)(\.(\w+))??$ matched
\* against the stem; both groups are lazy, so the first separator with text
\* before and after it splits, and group 2 is the shortest text that leaves an
\* extension tail; the tags are its non-empty pieces between blanks
get_tags(p) ==
    LET stem == PathStem(p)
        seps == {i \in 2..(Len(stem) - 4) : SubSeq(stem, i, i + 3) = <<32, 45, 45, 32>>}
    IN  IF seps = {} THEN <<>>
        ELSE LET i    == CHOOSE x \in seps : \A y \in seps : x <= y
                 rest == SubSeq(stem, i + 4, Len(stem))
                 k    == CHOOSE x \in 1..Len(rest) :
                           /\ IsExtTail(SubSeq(rest, x + 1, Len(rest)))
                           /\ \A y \in 1..(x - 1) : ~ IsExtTail(SubSeq(rest, y + 1, Len(rest)))
             IN  SelectSeq(Split(SubSeq(rest, 1, k), 32), LAMBDA t : t # <<>>)


-----------------------------------------------------------------------------
(* index.py: _index's document, _paths_to_index *)

\* index.py:142-148, get_text_method: the suffixes a text is extracted for
\* ("txt", "py", "md", "org", "pdf")
GetTextMethods ==
    { <<116, 120, 116>>, <<112, 121>>, <<109, 100>>, <<111, 114, 103>>,
      <<112, 100, 102>> }

\* index.py:169-204: the links get_text_from_org finds; contents of odd
\* number hold one link, and only an org file is searched for links
LinksOf(n, k) ==
    IF Slice1(Lower(PathSuffix(FilePath(n)))) = <<111, 114, 103>> /\ k % 2 = 1
    THEN <<[url |-> Str(UrlOf(k)), desc |-> None]>>
    ELSE <<>>

\* index.py:130-138 and 154: the so_doc _index builds for file n whose
\* contents and st_mtime are number k
SoDoc(n, k) ==
    [ path_  |-> Path(FilePath(n)),
      suffix |-> Slice1(Lower(PathSuffix(FilePath(n)))),
      lmod   |-> get_last_mod(FilePath(n), k),
      body   |-> BodyOf(k),
      tags   |-> [i \in DOMAIN get_tags(FilePath(n)) |-> Str(get_tags(FilePath(n))[i])],
      links  |-> LinksOf(n, k) ]

\* db_operations.py:174-176: {doc.path : doc for doc in Document.select()};
\* the keys are the str of the path column, the values Document instances; of
\* two rows with one path the later row stays
get_paths_already_indexed(docs) ==
    [k \in {Str(d.path) : d \in docs} |->
        CHOOSE d \in docs : d.path = k.v /\ \A e \in docs : e.path = k.v => e.id <= d.id]

\* index.py:108: path_ not in paths_already_indexed, for a pathlib.Path and a
\* dict keyed by str (a Path is equal to no str)
IsPathNotIndexed(path_, paths_already_indexed) ==
    path_ \notin DOMAIN paths_already_indexed

\* index.py:85-121, _paths_to_index: the candidates of the walker that are
\* taken. A candidate found in the dict reaches line 117, where a str is
\* compared with a Document instance: TypeError.
paths_to_index(tree, docs, arg_suffix, arg_force) ==
    LET paths_already_indexed == get_paths_already_indexed(docs)
        cands == walker(tree, arg_suffix, SKIP_DIRS, INCLUDE_EXTENSIONS)
        seen  == {n \in cands :
                    ~ IsPathNotIndexed(Path(FilePath(n)), paths_already_indexed)}
    IN  IF arg_force
        THEN [status |-> "returned", force |-> arg_force, suffix |-> arg_suffix,
              paths |-> cands]
        ELSE IF seen # {}
        THEN [status |-> "TypeError", force |-> arg_force, suffix |-> arg_suffix,
              paths |-> {}]
        ELSE [status |-> "returned", force |-> arg_force, suffix |-> arg_suffix,
              paths |-> cands \ seen]

\* a file is created or written: its contents and st_mtime move on
FsWrite(n) ==
    /\ fs[n] < MaxMtime
    /\ fs' = [fs EXCEPT ![n] = @ + 1]
    /\ UNCHANGED <<store, worker, busyLeft, callsLeft, sel, qres, run, call, session>>

\* a file is removed
FsRemove(n) ==
    /\ fs[n] # 0
    /\ fs' = [fs EXCEPT ![n] = 0]
    /\ UNCHANGED <<store, worker, busyLeft, callsLeft, sel, qres, run, call, session>>

\* upsert_doc is entered with the document of an existing file
UpsertFile(w) ==
    /\ worker[w].pc = "idle"
    /\ callsLeft > 0
    /\ callsLeft' = callsLeft - 1
    /\ \E n \in Files :
         /\ fs[n] # 0
         /\ SoDoc(n, fs[n]).suffix \in GetTextMethods
         /\ worker' = [worker EXCEPT ![w] =
                         [Idle EXCEPT !.pc = "cde_select", !.a_doc = SoDoc(n, fs[n]),
                                      !.mtries = Tries, !.mdelay = Delay,
                                      !.attempts = 1]]
    /\ UNCHANGED <<store, busyLeft, fs, sel, qres, run, call, session>>

\* the arg_suffix values of the index command: "", "txt", "ORG", "bin"
SuffixArgs == { <<>>, <<116, 120, 116>>, <<79, 82, 71>>, <<98, 105, 110>> }

\* index.py:52: paths_to_index = _paths_to_index(root, suffix, force), made
\* by the one process of the command, before any worker exists
PathsToIndex ==
    /\ sel.status = "none"
    /\ \A w \in Workers : worker[w].pc = "idle"
    /\ \E arg_force \in BOOLEAN : \E arg_suffix \in SuffixArgs :
         sel' = paths_to_index(fs, document, arg_suffix, arg_force)
    /\ UNCHANGED <<store, worker, busyLeft, callsLeft, fs, qres, run, call, session>>

\* the selection has been used
SelDone ==
    /\ sel.status # "none"
    /\ sel' = NoSel
    /\ UNCHANGED <<store, worker, busyLeft, callsLeft, fs, qres, run, call, session>>

\* one process, no contention
InitOneProcess ==
    /\ document = {}
    /\ document_fts = {}
    /\ document_tag = EmptyBag
    /\ document_link = EmptyBag
    /\ worker = [w \in Workers |-> Idle]
    /\ busyLeft = 0
    /\ callsLeft = MaxCalls
    /\ fs = NoFiles
    /\ sel = NoSel
    /\ qres = NoQuery
    /\ run = NoRun
    /\ call = NoCall
    /\ session = NoSession

NextSelect ==
    \/ \E n \in Files : FsWrite(n)
    \/ \E n \in Files : FsRemove(n)
    \/ sel.status = "none" /\ UpsertFile(1)
    \/ CdeSelect(1)
    \/ CdeDeleteTags(1)
    \/ CdeDeleteLinks(1)
    \/ CdeDeleteFts(1)
    \/ CdeDeleteDoc(1)
    \/ DocSave(1)
    \/ InsertFts(1)
    \/ InsertTag(1)
    \/ InsertLink(1)
    \/ UpsertReturn(1)
    \/ PathsToIndex
    \/ SelDone

SpecSelect == InitOneProcess /\ [][NextSelect]_vars

\* the candidates of the walker that the store holds with the last-modified
\* value the file has now
IndexedUnchanged(n) ==
    \E d \in document :
        d.path = FilePath(n) /\ d.last_mod = get_last_mod(FilePath(n), fs[n])

\* C1: when every candidate under the root is indexed and unchanged, a
\* selection made with force = false is empty.
C1_SecondRunSelectsNothing ==
    [][(sel.status = "none" /\ sel'.status # "none" /\ ~ sel'.force
          /\ \A n \in walker(fs, sel'.suffix, SKIP_DIRS, INCLUDE_EXTENSIONS) :
                IndexedUnchanged(n))
         => (sel'.status = "returned" /\ sel'.paths = {})]_vars

\* the selection the specification describes
ReferenceSelection(arg_suffix, arg_force) ==
    LET cands == walker(fs, arg_suffix, SKIP_DIRS, INCLUDE_EXTENSIONS)
    IN  IF arg_force THEN cands
        ELSE {n \in cands :
                \/ ~ \E d \in document : d.path = FilePath(n)
                \/ \E d \in document :
                     /\ d.path = FilePath(n)
                     /\ StrLess(d.last_mod, get_last_mod(FilePath(n), fs[n]))}

\* C6: the selection is the reference selection: every candidate with
\* force = true; with force = false the candidates the store does not hold
\* and those whose last-modified value is greater than the stored one.
C6_SelectionIsReference ==
    [][(sel.status = "none" /\ sel'.status # "none")
         => (sel'.status = "returned"
               /\ sel'.paths = ReferenceSelection(sel'.suffix, sel'.force))]_vars


-----------------------------------------------------------------------------
(* db_operations.py: query *)

\* a Python int, and a peewee Document instance (equal to another instance of
\* its class with its primary key, and to nothing else)
PyInt(n) == [t |-> "int", v |-> <<n>>]
DocumentInstance(id) == [t |-> "Document", v |-> <<id>>]

IsAlnum(ch) == ch \in 48..57 \/ ch \in 65..90 \/ ch \in 97..122

\* the tokens of the full-text index (tokenize = 'porter' over unicode61):
\* the runs of letters and digits, folded to lower case; the texts of the
\* model hold no word the stemmer changes
RECURSIVE TokensFrom(_, _)
TokensFrom(s, cur) ==
    IF s = <<>> THEN (IF cur = <<>> THEN {} ELSE {Lower(cur)})
    ELSE IF IsAlnum(Head(s)) THEN TokensFrom(Tail(s), Append(cur, Head(s)))
    ELSE (IF cur = <<>> THEN {} ELSE {Lower(cur)}) \cup TokensFrom(Tail(s), <<>>)

Tokens(s) == TokensFrom(s, <<>>)

\* DocumentFTS.search_bm25(query_string): the rows one of whose columns holds
\* the term
FtsMatch(f, q) == Lower(q) \in Tokens(f.path) \cup Tokens(f.body)

\* ">>>" and "<<<"
HlOpen  == <<62, 62, 62>>
HlClose == <<60, 60, 60>>

\* DocumentFTS.body.snippet('>>>', '<<<', max_tokens=5): the body with each
\* matching token between the marks (the bodies of the model have at most
\* five tokens, so nothing is cut)
RECURSIVE SnippetFrom(_, _, _)
SnippetFrom(s, q, cur) ==
    LET flush == IF cur # <<>> /\ Lower(cur) = Lower(q)
                 THEN HlOpen \o cur \o HlClose ELSE cur
    IN  IF s = <<>> THEN flush
        ELSE IF IsAlnum(Head(s)) THEN SnippetFrom(Tail(s), q, Append(cur, Head(s)))
        ELSE flush \o <<Head(s)>> \o SnippetFrom(Tail(s), q, <<>>)

Snippet(body, q) == SnippetFrom(body, q, <<>>)

\* f"{x:.2f}" of a bm25 score given in hundredths (the scores are <= 0)
Fmt2f(h) ==
    LET a == IF h < 0 THEN -h ELSE h
    IN  (IF h < 0 THEN <<45>> ELSE <<>>)
          \o <<48 + (a \div 100)>> \o <<46>> \o <<48 + ((a \div 10) % 10), 48 + (a % 10)>>

\* the bm25 scores the store may give a matching row, in hundredths
Bm25Scores == {-150, -25}

\* pathlib parts of an absolute path: "/", then the names
PathParts(s) ==
    LET parts == Split(s, 47)
    IN  <<<<47>>>> \o SelectSeq(Tail(parts), LAMBDA x : x # <<>>)

RECURSIVE JoinParts(_)
JoinParts(parts) ==
    IF parts = <<>> THEN <<>>
    ELSE IF Len(parts) = 1 THEN parts[1]
    ELSE parts[1] \o <<47>> \o JoinParts(Tail(parts))

\* str(doc_path.relative_to(*doc_path.parts[:3]))
PathRel(s) ==
    LET parts == PathParts(s)
    IN  IF Len(parts) <= 3 THEN <<46>> ELSE JoinParts(SubSeq(parts, 4, Len(parts)))

\* db_operations.py:24-28, _get_docs_by_id: Document.id.in_(doc_ids); an int
\* and a Document instance both reach the statement as the key
get_docs_by_id(docs, doc_ids) == {d \in docs : \E x \in doc_ids : x.v = <<d.id>>}

\* order_by(DocumentFTS.bm25().desc()): greatest score first, rows of one
\* score by rowid
RECURSIVE ByScoreDesc(_, _)
ByScoreDesc(S, bm25) ==
    IF S = {} THEN <<>>
    ELSE LET f == CHOOSE x \in S : \A y \in S :
                     \/ bm25[x.rowid] > bm25[y.rowid]
                     \/ bm25[x.rowid] = bm25[y.rowid] /\ x.rowid <= y.rowid
         IN  <<f>> \o ByScoreDesc(S \ {f}, bm25)

\* db_operations.py:49-63: the QueryResult of a full-text row and its document
FtsResult(doc, fts, q, bm25) ==
    [ doc_id    |-> PyInt(doc.id),
      rank      |-> Fmt2f(bm25[fts.rowid]),
      path_full |-> Path(doc.path),
      name      |-> PathName(doc.path),
      path_rel  |-> PathRel(doc.path),
      suffix    |-> doc.suffix,
      last_mod  |-> doc.last_mod,
      snippet   |-> Snippet(fts.body, q) ]

\* " 0.00" and "Tag: "
TagRank == <<32, 48, 46, 48, 48>>
TagWord == <<84, 97, 103, 58, 32>>

\* db_operations.py:78-92: the QueryResult of a document found by its tag
TagResult(doc, q) ==
    [ doc_id    |-> None,
      rank      |-> TagRank,
      path_full |-> Path(doc.path),
      name      |-> PathName(doc.path),
      path_rel  |-> PathRel(doc.path),
      suffix    |-> doc.suffix,
      last_mod  |-> doc.last_mod,
      snippet   |-> TagWord \o HlOpen \o q \o HlClose ]

\* db_operations.py:31-65, get_docs_from_fts: (results, doc_ids)
get_docs_from_fts(docs, ftsRows, q, bm25) ==
    LET ftss    == ByScoreDesc({f \in ftsRows : FtsMatch(f, q)}, bm25)
        doc_ids == [i \in DOMAIN ftss |-> PyInt(ftss[i].rowid)]
        found   == get_docs_by_id(docs, Range(doc_ids))
        kept    == SelectSeq(ftss, LAMBDA f : \E d \in found : d.id = f.rowid)
    IN  [ results |-> [i \in DOMAIN kept |->
                         FtsResult(CHOOSE d \in found : d.id = kept[i].rowid,
                                   kept[i], q, bm25)],
          doc_ids |-> doc_ids ]

\* db_operations.py:67-93, get_docs_from_tags: dt_.doc_id is the accessor of
\* the ForeignKeyField doc_id of db_logical.py:34 and gives the Document
\* instance the row refers to (the key itself is dt_.doc_id_id); doc_ids
\* holds ints
get_docs_from_tags(docs, tagRows, doc_ids, q) ==
    LET tagged      == {dt_ \in DOMAIN tagRows : dt_.tag = q}
        tag_doc_ids == {DocumentInstance(dt_.doc_id) : dt_ \in
                          {x \in tagged : DocumentInstance(x.doc_id) \notin Range(doc_ids)}}
        found       == RowsById(get_docs_by_id(docs, tag_doc_ids))
    IN  IF tagged = {} THEN <<>>
        ELSE [i \in DOMAIN found |-> TagResult(found[i], q)]

\* db_operations.py:98-101: return docs_from_tags + docs_from_fts
query(docs, ftsRows, tagRows, q, bm25) ==
    LET fts == get_docs_from_fts(docs, ftsRows, q, bm25)
    IN  get_docs_from_tags(docs, tagRows, fts.doc_ids, q) \o fts.results


-----------------------------------------------------------------------------
(* cli_commands/query.py: _sort_filter_results *)

\* "lastmod", "name", "path", "rank", "suffix"
SortKeys ==
    { <<108, 97, 115, 116, 109, 111, 100>>, <<110, 97, 109, 101>>,
      <<112, 97, 116, 104>>, <<114, 97, 110, 107>>, <<115, 117, 102, 102, 105, 120>> }

\* adts.py:7-13, SortOrderChoices: the attribute each key sorts by
SortOrderChoices(key) ==
    CASE key = <<108, 97, 115, 116, 109, 111, 100>> -> "last_mod"
      [] key = <<110, 97, 109, 101>> -> "name"
      [] key = <<112, 97, 116, 104>> -> "path_full"
      [] key = <<114, 97, 110, 107>> -> "rank"
      [] key = <<115, 117, 102, 102, 105, 120>> -> "suffix"

\* sort orders SortOrderValidator lets through (cli_utils.py:69-74: any text
\* whose lower-cased form without "-" is a key): each key, "-" and the key,
\* and "Name" and "name-"
SortOrders ==
    SortKeys \cup {<<45>> \o k : k \in SortKeys}
      \cup { <<78, 97, 109, 101>>, <<110, 97, 109, 101, 45>> }

\* tuples of strings compare element by element (the parts of a Path)
RECURSIVE PartsLess(_, _)
PartsLess(a, b) ==
    IF b = <<>> THEN FALSE
    ELSE IF a = <<>> THEN TRUE
    ELSE IF Head(a) = Head(b) THEN PartsLess(Tail(a), Tail(b))
    ELSE StrLess(Head(a), Head(b))

\* getattr(x, attribute) < getattr(y, attribute): str against str, and for
\* path_full Path against Path (by parts)
AttrLess(attribute, x, y) ==
    CASE attribute = "last_mod"  -> StrLess(x.last_mod, y.last_mod)
      [] attribute = "name"      -> StrLess(x.name, y.name)
      [] attribute = "path_full" -> PartsLess(PathParts(x.path_full.v), PathParts(y.path_full.v))
      [] attribute = "rank"      -> StrLess(x.rank, y.rank)
      [] attribute = "suffix"    -> StrLess(x.suffix, y.suffix)

\* the filter comparing the suffix as written
filter_results_by_suffix_CaseSensitive(suffix, results) ==
    IF suffix # <<>>
    THEN SelectSeq(results, LAMBDA doc : doc.suffix = suffix)
    ELSE results

\* query.py:88-93, filter_results_by_suffix
filter_results_by_suffix(suffix, results) ==
    IF suffix # <<>>
    THEN SelectSeq(results, LAMBDA doc : Lower(doc.suffix) = Lower(suffix))
    ELSE results

\* sort_results without the reversal
Reverse_Ignored(sort_order) == FALSE

\* query.py:100: reverse = True if sort_order.startswith("-") else False
Reverse(sort_order) == sort_order # <<>> /\ Head(sort_order) = 45

\* query.py:103: SortOrderChoices[sort_order.replace("-", "")].value
OrderByAttribute(sort_order) ==
    SortOrderChoices(SelectSeq(sort_order, LAMBDA ch : ch # 45))

\* x comes before y in the order asked for
Before(attribute, reverse, x, y) ==
    IF reverse THEN AttrLess(attribute, y, x) ELSE AttrLess(attribute, x, y)

\* list.sort(key, reverse) is stable, also when reversed: an element goes
\* behind every earlier element it does not come before
RECURSIVE InsertSorted(_, _, _, _)
InsertSorted(sorted, x, attribute, reverse) ==
    IF sorted = <<>> THEN <<x>>
    ELSE IF Before(attribute, reverse, x, Head(sorted))
    THEN <<x>> \o sorted
    ELSE <<Head(sorted)>> \o InsertSorted(Tail(sorted), x, attribute, reverse)

RECURSIVE SortFrom(_, _, _, _)
SortFrom(sorted, rest, attribute, reverse) ==
    IF rest = <<>> THEN sorted
    ELSE SortFrom(InsertSorted(sorted, Head(rest), attribute, reverse),
                  Tail(rest), attribute, reverse)

\* query.py:95-110, sort_results
sort_results(sort_order, results) ==
    SortFrom(<<>>, results, OrderByAttribute(sort_order), Reverse(sort_order))

\* query.py:103: the lookup raises KeyError for a name that is no key
IsSortKey(sort_order) == SelectSeq(sort_order, LAMBDA ch : ch # 45) \in SortKeys

\* query.py:86-114, _sort_filter_results: the filter, then the sort;
\* query_parms.top_n is not read
sort_filter_results(query_parms, results) ==
    sort_results(query_parms.sort_order,
                 filter_results_by_suffix(query_parms.suffix, results))


-----------------------------------------------------------------------------
(* cli_commands/query.py: command *)

MaxTopN == 1        \* largest top_n asked for

\* the query strings: "t1", "t2"
QueryStrings == { <<116, 49>>, <<116, 50>> }

\* the suffix filters: none, "txt", "TXT", "pdf"
SuffixFilters == { <<>>, <<116, 120, 116>>, <<84, 88, 84>>, <<112, 100, 102>> }

TopNs == {None} \cup {PyInt(k) : k \in 1..MaxTopN}

\* adts.py:18-24, QueryCommandParameters
QueryParms ==
    [query_string : QueryStrings, top_n : TopNs, suffix : SuffixFilters,
     sort_order : SortOrders]

\* query.py:23-61, command: dbo.query, and if anything matched
\* _sort_filter_results and the display of its result
Query ==
    /\ qres.status = "none"
    /\ \A w \in Workers : worker[w].pc = "idle"
    /\ \E query_string \in QueryStrings :
         \E bm25 \in [{f.rowid : f \in {x \in document_fts : FtsMatch(x, query_string)}}
                        -> Bm25Scores] :
           LET results == query(document, document_fts, document_tag, query_string, bm25)
           IN  \E query_parms \in {p \in QueryParms : p.query_string = query_string} :
                 qres' = IF results = <<>>
                         THEN [status |-> "nothing", parms |-> query_parms,
                               merged |-> <<>>, results |-> <<>>]
                         ELSE IF ~ IsSortKey(query_parms.sort_order)
                         THEN [status |-> "KeyError", parms |-> query_parms,
                               merged |-> results, results |-> <<>>]
                         ELSE [status |-> "displayed", parms |-> query_parms,
                               merged |-> results,
                               results |-> sort_filter_results(query_parms, results)]
    /\ UNCHANGED <<store, worker, busyLeft, callsLeft, fs, sel, run, call, session>>

\* the command has returned
QueryDone ==
    /\ qres.status # "none"
    /\ qres' = NoQuery
    /\ UNCHANGED <<store, worker, busyLeft, callsLeft, fs, sel, run, call, session>>

\* the commands of the one process run one after the other
NextQuery ==
    \/ qres.status = "none" /\ UpsertDoc(1)
    \/ CdeSelect(1)
    \/ CdeDeleteTags(1)
    \/ CdeDeleteLinks(1)
    \/ CdeDeleteFts(1)
    \/ CdeDeleteDoc(1)
    \/ DocSave(1)
    \/ InsertFts(1)
    \/ InsertTag(1)
    \/ InsertLink(1)
    \/ UpsertReturn(1)
    \/ Query
    \/ QueryDone

SpecQuery == InitOneProcess /\ [][NextQuery]_vars


-----------------------------------------------------------------------------
(* The query claims *)

\* the command has just answered
Answered == qres.status = "none" /\ qres'.status # "none"

\* the entries of a result list that stand for the document of a path
EntriesOf(results, path) == {i \in DOMAIN results : results[i].path_full.v = path}

StartsWith(s, prefix) ==
    Len(s) >= Len(prefix) /\ SubSeq(s, 1, Len(prefix)) = prefix

\* C4: a document that matches the query both in the full text and by an
\* exact tag is in the list query() returns exactly once, with the full-text
\* rank and snippet (not the rank " 0.00", not the "Tag:" snippet).
C4_FusionDedup ==
    [][Answered =>
         \A d \in document :
            LET q == qres'.parms.query_string
                e == EntriesOf(qres'.merged, d.path)
            IN  ((\E f \in document_fts : f.rowid = d.id /\ FtsMatch(f, q))
                   /\ (\E t \in DOMAIN document_tag : t.doc_id = d.id /\ t.tag = q))
                => /\ Cardinality(e) = 1
                   /\ \A i \in e :
                        /\ qres'.merged[i].doc_id = PyInt(d.id)
                        /\ qres'.merged[i].rank # TagRank
                        /\ ~ StartsWith(qres'.merged[i].snippet, TagWord)]_vars

\* the merged results whose suffix is the filter's, case ignored; all of them
\* without a filter
Wanted(merged, suffix) ==
    SelectSeq(merged, LAMBDA r : suffix = <<>> \/ Lower(r.suffix) = Lower(suffix))

\* C5: when top_n is given and more results than top_n match, the list
\* handed to the display has exactly top_n entries.
C5_TopNTruncates ==
    (qres.status = "displayed" /\ qres.parms.top_n # None
       /\ Len(Wanted(qres.merged, qres.parms.suffix)) > qres.parms.top_n.v[1])
      => Len(qres.results) = qres.parms.top_n.v[1]

\* how often an entry occurs in a list
Count(seq, x) == Cardinality({i \in DOMAIN seq : seq[i] = x})

IsPermutation(a, b) ==
    Len(a) = Len(b) /\ \A i \in DOMAIN a : Count(a, a[i]) = Count(b, a[i])

\* the value a sort key orders by; a Path orders by its parts
KeyOf(r, key) ==
    CASE key = <<108, 97, 115, 116, 109, 111, 100>> -> <<r.last_mod>>
      [] key = <<110, 97, 109, 101>> -> <<r.name>>
      [] key = <<112, 97, 116, 104>> -> PathParts(r.path_full.v)
      [] key = <<114, 97, 110, 107>> -> <<r.rank>>
      [] key = <<115, 117, 102, 102, 105, 120>> -> <<r.suffix>>

\* C9: the displayed results are ordered by the attribute of the sort key,
\* non-decreasing for a plain key ("name") and non-increasing for a key with
\* a leading "-" ("-lastmod"), and they are a permutation of the filtered
\* input.
C9_SortOrder ==
    qres.status = "displayed" =>
       LET so   == qres.parms.sort_order
           desc == so[1] = 45
           key  == IF desc THEN Tail(so) ELSE so
       IN  /\ \A i \in DOMAIN qres.results : \A j \in DOMAIN qres.results :
                 (key \in SortKeys /\ i < j) =>
                          IF desc
                          THEN ~ PartsLess(KeyOf(qres.results[i], key),
                                           KeyOf(qres.results[j], key))
                          ELSE ~ PartsLess(KeyOf(qres.results[j], key),
                                           KeyOf(qres.results[i], key))
           /\ IsPermutation(qres.results, Wanted(qres.merged, qres.parms.suffix))

\* C9 happens: results with different last-modified values are displayed
\* in "-lastmod" order, which is not the order of the merged list
C9_Witness ==
    /\ qres.status = "displayed"
    /\ qres.parms.sort_order = <<45, 108, 97, 115, 116, 109, 111, 100>>
    /\ Len(qres.results) >= 2
    /\ qres.results # qres.merged
    /\ \E i \in DOMAIN qres.results : \E j \in DOMAIN qres.results :
          StrLess(qres.results[j].last_mod, qres.results[i].last_mod)

\* C10: with a suffix filter the displayed list holds exactly the merged
\* results whose suffix is the filter's, case ignored, filtered before the
\* sort; without a filter it holds every merged result.
C10_SuffixFilter ==
    qres.status = "displayed" =>
       /\ qres.results = sort_results(qres.parms.sort_order,
                                      Wanted(qres.merged, qres.parms.suffix))
       /\ \A i \in DOMAIN qres.merged :
             Count(qres.results, qres.merged[i]) =
                IF qres.parms.suffix = <<>>
                      \/ Lower(qres.merged[i].suffix) = Lower(qres.parms.suffix)
                THEN Count(qres.merged, qres.merged[i]) ELSE 0
       /\ \A i \in DOMAIN qres.results : Count(qres.merged, qres.results[i]) > 0

\* C10 happens: the filter "TXT" keeps a "txt" result and drops a "pdf" one
C10_Witness ==
    /\ qres.status = "displayed"
    /\ qres.parms.suffix = <<84, 88, 84>>
    /\ \E i \in DOMAIN qres.results : qres.results[i].suffix = <<116, 120, 116>>
    /\ \E i \in DOMAIN qres.merged : qres.merged[i].suffix = <<112, 100, 102>>
    /\ Len(qres.results) < Len(qres.merged)


-----------------------------------------------------------------------------
(* index.py: index and its pool of _index tasks *)

\* what index() is handed as index_parms: the bool the commands pass
\* (cli_commands/index.py:57), an IndexCommandParameters (adts.py:27-32, no
\* field verbose), or an object that has force and verbose
ParmKinds == {"bool", "IndexCommandParameters", "with_verbose"}

\* multiprocessing.cpu_count()
CpuCounts == {1, 4}

\* index.py:55: a pool of one process up to 100 paths
PoolThreshold == 100

\* a pool of several processes from 100 paths on
pool_size_FromThreshold(n_paths, cpu_count) ==
    IF n_paths >= PoolThreshold THEN (cpu_count * 2) - 1 ELSE 1

pool_size(n_paths, cpu_count) ==
    IF n_paths > PoolThreshold THEN (cpu_count * 2) - 1 ELSE 1

\* index.py:132: path_.suffix.lower()[1:] of each file
SuffixOfFile == [n \in Files |-> Slice1(Lower(PathSuffix(FilePath(n))))]

\* index.py:259: the files whose name starts with a date
DatedFile == [n \in Files |-> MatchesDate(PathName(FilePath(n)))]

\* db_operations.py:107, def upsert_doc(a_doc): the parameters it has
UpsertDocParams == 1

\* index.py:160, dbo.upsert_doc(verbose, so_doc): the arguments it is given
UpsertDocArgs == 2

\* "Sorry, {path_} may be a invalid PDF ({err})" (index.py:212)
SorryInvalidPdf == <<83, 111, 114, 114, 121>>

\* an _index that goes on to the upsert without a text strategy
index_task_NoSkip(suffix, dated, exists, readable, pdf_ok) ==
    LET pdf_failed == suffix = <<112, 100, 102>> /\ (~ exists \/ ~ pdf_ok)
        printed    == IF pdf_failed THEN <<SorryInvalidPdf>> ELSE <<>>
        call160    == IF UpsertDocArgs = UpsertDocParams THEN "upsert_doc" ELSE "TypeError"
    IN  IF ~ exists /\ ~ dated
        THEN [outcome |-> "FileNotFoundError", printed |-> <<>>, body |-> Str(<<>>)]
        ELSE IF suffix \notin GetTextMethods
        THEN [outcome |-> call160, printed |-> <<>>, body |-> Str(<<>>)]
        ELSE IF suffix = <<112, 100, 102>>
        THEN [outcome |-> call160, printed |-> printed,
              body |-> IF pdf_failed THEN None ELSE Str(<<116>>)]
        ELSE IF ~ exists
        THEN [outcome |-> "FileNotFoundError", printed |-> <<>>, body |-> Str(<<>>)]
        ELSE IF suffix # <<111, 114, 103>> /\ ~ readable
        THEN [outcome |-> "UnicodeDecodeError", printed |-> <<>>, body |-> Str(<<>>)]
        ELSE [outcome |-> call160, printed |-> <<>>, body |-> Str(<<116>>)]

\* index.py:123-160, _index(verbose, path_) for a path of the given suffix:
\* what it returns or raises ("None" when it returns None, "upsert_doc" when
\* it returns what upsert_doc returned), the error messages it prints, and
\* the so_doc.body it has when it ends ('' until a text is extracted).
\* get_last_mod stats a file
\* that has no date in its name; no strategy returns None; get_text_from_txt
\* opens and decodes the file, get_text_from_org opens it with
\* errors='ignore'; get_text_from_pdf catches every error of the extraction,
\* prints it and returns (None, None); line 160 then calls
\* upsert_doc(verbose, so_doc), two arguments for the one parameter of
\* db_operations.py:107: TypeError.
index_task(suffix, dated, exists, readable, pdf_ok) ==
    LET pdf_failed == suffix = <<112, 100, 102>> /\ (~ exists \/ ~ pdf_ok)
        printed    == IF pdf_failed THEN <<SorryInvalidPdf>> ELSE <<>>
        call160    == IF UpsertDocArgs = UpsertDocParams THEN "upsert_doc" ELSE "TypeError"
    IN  IF ~ exists /\ ~ dated
        THEN [outcome |-> "FileNotFoundError", printed |-> <<>>, body |-> Str(<<>>)]
        ELSE IF suffix \notin GetTextMethods
        THEN [outcome |-> "None", printed |-> <<>>, body |-> Str(<<>>)]
        ELSE IF suffix = <<112, 100, 102>>
        THEN [outcome |-> call160, printed |-> printed,
              body |-> IF pdf_failed THEN None ELSE Str(<<116>>)]
        ELSE IF ~ exists
        THEN [outcome |-> "FileNotFoundError", printed |-> <<>>, body |-> Str(<<>>)]
        ELSE IF suffix # <<111, 114, 103>> /\ ~ readable
        THEN [outcome |-> "UnicodeDecodeError", printed |-> <<>>, body |-> Str(<<>>)]
        ELSE [outcome |-> call160, printed |-> <<>>, body |-> Str(<<116>>)]

\* _index(verbose, path_) for file n with st_mtime k (0: the file is gone):
\* "None" when it returns None, else the exception it raises
index_outcome(n, k, readable) ==
    index_task(SuffixOfFile[n], DatedFile[n], k # 0, readable, TRUE).outcome

\* a pool process that ends with the task that raised
AfterTask_Dies(outcome) == IF outcome = "None" THEN 0 ELSE -1

\* the pool process that ran a task takes the next one, whatever the task
\* returned or raised (multiprocessing.pool.worker catches the exception and
\* sends it as the result)
AfterTask(outcome) == 0

\* index.py:35-56: index() up to the creation of the pool
IndexCall ==
    /\ run.status = "none"
    /\ callsLeft > 0
    /\ callsLeft' = callsLeft - 1
    /\ \E kind \in ParmKinds : \E b_force \in BOOLEAN : \E arg_suffix \in SuffixArgs :
       \E yes \in BOOLEAN : \E cpu_count \in CpuCounts :
         LET paths == paths_to_index(fs, document, arg_suffix, b_force)
         IN  run' = IF kind # "with_verbose"
                    THEN [NoRun EXCEPT !.status = "AttributeError"]
                    ELSE IF paths.status = "TypeError"
                    THEN [NoRun EXCEPT !.status = "TypeError"]
                    ELSE IF ~ yes
                    THEN [NoRun EXCEPT !.status = "declined"]
                    ELSE [NoRun EXCEPT
                            !.status = "submitting", !.todo = paths.paths,
                            !.inflight = [w \in 1..pool_size(Cardinality(paths.paths),
                                                             cpu_count) |-> 0]]
    /\ UNCHANGED <<store, worker, busyLeft, fs, sel, qres, call, session>>

\* index.py:60-66: pool.apply_async(_index, [b_verbose, path_], ...)
Submit ==
    /\ run.status = "submitting"
    /\ \E n \in run.todo :
         run' = [run EXCEPT !.todo = @ \ {n}, !.submitted = @ \cup {n},
                            !.taskq = Append(@, n)]
    /\ UNCHANGED <<store, worker, busyLeft, callsLeft, fs, sel, qres, call, session>>

\* index.py:69: pool.close()
PoolClose ==
    /\ run.status = "submitting"
    /\ run.todo = {}
    /\ run' = [run EXCEPT !.status = "closed"]
    /\ UNCHANGED <<store, worker, busyLeft, callsLeft, fs, sel, qres, call, session>>

\* a free pool process takes the next task
TaskStart(w) ==
    /\ run.status \in {"submitting", "closed"}
    /\ run.inflight[w] = 0
    /\ run.taskq # <<>>
    /\ run' = [run EXCEPT !.inflight[w] = Head(run.taskq), !.taskq = Tail(@)]
    /\ UNCHANGED <<store, worker, busyLeft, callsLeft, fs, sel, qres, call, session>>

\* the pool process runs _index and sends what it returned or raised
TaskRun(w) ==
    /\ run.status \in {"submitting", "closed"}
    /\ run.inflight[w] > 0
    /\ \E readable \in BOOLEAN :
         LET n       == run.inflight[w]
             outcome == index_outcome(n, fs[n], readable)
         IN  run' = [run EXCEPT !.inflight[w] = AfterTask(outcome),
                                !.outq = Append(@, [n |-> n, outcome |-> outcome])]
    /\ UNCHANGED <<store, worker, busyLeft, callsLeft, fs, sel, qres, call, session>>

\* index.py:77-82: the result thread of the parent calls callback_update
\* (PROGRESS.update(): count += 1) for a value and callback_error
\* (sys.stderr.write(str(exception))) for an exception
HandleResult ==
    /\ run.status \in {"submitting", "closed"}
    /\ run.outq # <<>>
    /\ LET res == Head(run.outq)
       IN  run' = [run EXCEPT
                     !.outq = Tail(@),
                     !.handled = @ \cup {res.n},
                     !.count = IF res.outcome = "None" THEN @ + 1 ELSE @,
                     !.stderr = IF res.outcome = "None" THEN @ ELSE Append(@, res)]
    /\ UNCHANGED <<store, worker, busyLeft, callsLeft, fs, sel, qres, call, session>>

\* index.py:70-74: pool.join() ends when the pool processes have run every
\* task and the result thread has handled every result; index() returns
PoolJoin ==
    /\ run.status = "closed"
    /\ run.taskq = <<>>
    /\ \A w \in DOMAIN run.inflight : run.inflight[w] = 0
    /\ run.outq = <<>>
    /\ run' = [run EXCEPT !.status = "returned"]
    /\ UNCHANGED <<store, worker, busyLeft, callsLeft, fs, sel, qres, call, session>>

\* the caller has the result or the exception of index()
IndexDone ==
    /\ run.status \in {"returned", "declined", "AttributeError", "TypeError"}
    /\ run' = NoRun
    /\ UNCHANGED <<store, worker, busyLeft, callsLeft, fs, sel, qres, call, session>>

\* any tree under the root; the store is empty
InitIndex ==
    /\ document = {}
    /\ document_fts = {}
    /\ document_tag = EmptyBag
    /\ document_link = EmptyBag
    /\ worker = [w \in Workers |-> Idle]
    /\ busyLeft = 0
    /\ callsLeft = MaxCalls
    /\ fs \in [Files -> 0..1]
    /\ sel = NoSel
    /\ qres = NoQuery
    /\ run = NoRun
    /\ call = NoCall
    /\ session = NoSession

\* files may go away while the run is under way
NextIndex ==
    \/ \E n \in Files : FsRemove(n)
    \/ IndexCall
    \/ Submit
    \/ PoolClose
    \/ \E w \in DOMAIN run.inflight : TaskStart(w)
    \/ \E w \in DOMAIN run.inflight : TaskRun(w)
    \/ HandleResult
    \/ PoolJoin
    \/ IndexDone

SpecIndex == InitIndex /\ [][NextIndex]_vars

\* the parent, the pool processes and the result thread are scheduled
FairIndex ==
    /\ WF_vars(Submit)
    /\ WF_vars(PoolClose)
    /\ WF_vars(\E w \in DOMAIN run.inflight : TaskStart(w))
    /\ WF_vars(\E w \in DOMAIN run.inflight : TaskRun(w))
    /\ WF_vars(HandleResult)
    /\ WF_vars(PoolJoin)

SpecIndexFair == SpecIndex /\ FairIndex


-----------------------------------------------------------------------------
(* The indexing run claim *)

\* every result handled so far was counted or written to stderr
Reported ==
    /\ Cardinality(run.handled) = run.count + Len(run.stderr)
    /\ \A i \in DOMAIN run.stderr :
          run.stderr[i].n \in run.handled /\ run.stderr[i].outcome # "None"

\* C7: a task that fails stops no other task: every submitted path's task
\* is eventually run and its result handled, each failure is reported, and
\* index() returns only when every submitted task has finished.
C7_FailureIsolation ==
    /\ [](Reported)
    /\ [](run.status = "returned"
            => run.todo = {} /\ run.taskq = <<>> /\ run.handled = run.submitted)
    /\ \A n \in Files : (n \in run.submitted) ~> (n \in run.handled)

\* C7 happens: index() has returned from a run in which two tasks failed
\* with different exceptions, the second handled after the first
C7_Witness ==
    /\ run.status = "returned"
    /\ Len(run.stderr) >= 2
    /\ run.stderr[1].n # run.stderr[2].n
    /\ run.stderr[1].outcome # run.stderr[2].outcome


-----------------------------------------------------------------------------
(* index.py: the helpers walker, get_tags, get_last_mod and get_org_links,  *)
(* called on their own with arguments drawn from bounded sets               *)

MaxNodes == 3       \* entries of a directory tree handed to walker

\* entry names: ".git", "s.txt", "d.bin"
EntryNames == { <<46, 103, 105, 116>>, <<115, 46, 116, 120, 116>>, <<100, 46, 98, 105, 110>> }

\* a directory tree below the root: entry i is a file or a directory named
\* name inside entry parent (0: the root itself); an entry lies inside a
\* directory made before it, and the names inside one directory differ
IsTree(t) ==
    /\ \A i \in DOMAIN t :
         /\ t[i].parent < i
         /\ t[i].parent # 0 => t[t[i].parent].is_dir
    /\ \A i, j \in DOMAIN t :
         (i # j /\ t[i].parent = t[j].parent) => t[i].name # t[j].name

Trees ==
    UNION { {t \in [1..k -> [parent : 0..(MaxNodes - 1), name : EntryNames,
                             is_dir : BOOLEAN]] : IsTree(t)} : k \in 0..MaxNodes }

\* Path(walk_path).iterdir(): the entries of directory d
IterDir(t, d) == {i \in DOMAIN t : t[i].parent = d}

\* index.py:235, the test that sends _walk into an entry
IsDescended_AnyDir(t, i, skip_dirs) == t[i].is_dir

IsDescended(t, i, skip_dirs) == t[i].is_dir /\ t[i].name \notin skip_dirs

\* index.py:233-238, _walk(walk_path): the entries it yields
RECURSIVE walk(_, _, _)
walk(t, walk_path, skip_dirs) ==
    UNION { IF IsDescended(t, i, skip_dirs) THEN walk(t, i, skip_dirs) ELSE {i}
            : i \in IterDir(t, walk_path) }

\* index.py:233-238, _walk(walk_path): the directories it is called on
RECURSIVE walk_calls(_, _, _)
walk_calls(t, walk_path, skip_dirs) ==
    {walk_path} \cup
    UNION { IF IsDescended(t, i, skip_dirs) THEN walk_calls(t, i, skip_dirs) ELSE {}
            : i \in IterDir(t, walk_path) }

\* index.py:240-248, the filter of walker on one yielded path
IsYielded(name, arg_suffix, include_suffixes) ==
    IF arg_suffix # <<>>
    THEN Lower(arg_suffix) = Slice1(Lower(PathSuffix(name)))
    ELSE Lower(PathSuffix(name)) \in include_suffixes

\* index.py:228-248, walker(arg_path, arg_suffix, skip_dirs, include_suffixes)
\* on a tree of entries
walker_of_tree(t, arg_suffix, skip_dirs, include_suffixes) ==
    {i \in walk(t, 0, skip_dirs) : IsYielded(t[i].name, arg_suffix, include_suffixes)}

\* the skip sets, suffix arguments ("", "TXT", "bin") and allow-lists
\* ({".txt"}, {".txt", ".bin"}) walker is called with
SkipSets == SUBSET { <<46, 103, 105, 116>>, <<115, 46, 116, 120, 116>> }
WalkerSuffixArgs == { <<>>, <<84, 88, 84>>, <<98, 105, 110>> }
IncludeSets == { {<<46, 116, 120, 116>>}, {<<46, 116, 120, 116>>, <<46, 98, 105, 110>>} }

CallWalker ==
    /\ call.fn = "none"
    /\ \E t \in Trees : \E skip_dirs \in SkipSets : \E arg_suffix \in WalkerSuffixArgs :
       \E include_suffixes \in IncludeSets :
         call' = [fn |-> "walker",
                  args |-> [tree |-> t, arg_suffix |-> arg_suffix, skip_dirs |-> skip_dirs,
                            include_suffixes |-> include_suffixes],
                  ret |-> [paths |-> walker_of_tree(t, arg_suffix, skip_dirs, include_suffixes),
                           walked |-> walk_calls(t, 0, skip_dirs)]]
    /\ UNCHANGED <<store, worker, busyLeft, callsLeft, fs, sel, qres, run, session>>

\* the caller has used what the helper returned
CallDone ==
    /\ call.fn # "none"
    /\ call' = NoCall
    /\ UNCHANGED <<store, worker, busyLeft, callsLeft, fs, sel, qres, run, session>>

MaxTagLen == 4      \* characters of a file name after its " -- " separator

\* the strings of up to n characters over the characters of S
RECURSIVE StringsUpTo(_, _)
StringsUpTo(S, n) ==
    IF n = 0 THEN {<<>>}
    ELSE LET shorter == StringsUpTo(S, n - 1)
         IN  shorter \cup {Append(s, ch) : s \in shorter, ch \in S}

\* FILENAME_TAG_SEPARATOR, index.py:26: " -- "
FILENAME_TAG_SEPARATOR == <<32, 45, 45, 32>>

\* file names: "" or "n", then nothing or the separator, then up to MaxTagLen
\* characters of " ", "t", "1", ".", then nothing or ".pdf"
TagFileNames ==
    { name \o sep \o rest \o ext :
        name \in {<<>>, <<110>>}, sep \in {<<>>, FILENAME_TAG_SEPARATOR},
        rest \in StringsUpTo({32, 116, 49, 46}, MaxTagLen),
        ext \in {<<>>, <<46, 112, 100, 102>>} } \ {<<>>}

CallGetTags ==
    /\ call.fn = "none"
    /\ \E name \in TagFileNames :
         call' = [fn |-> "get_tags", args |-> [path_ |-> Path(name)],
                  ret |-> get_tags(name)]
    /\ UNCHANGED <<store, worker, busyLeft, callsLeft, fs, sel, qres, run, session>>

\* file names: "2021-12-29", "2022-01-20" or "20211229", then nothing or one of
\* "T", " ", "_", "-", ".", "a", then nothing, "n.pdf" or "pdf"
DateFileNames ==
    { date \o next \o rest :
        date \in { <<50, 48, 50, 49, 45, 49, 50, 45, 50, 57>>,
                   <<50, 48, 50, 50, 45, 48, 49, 45, 50, 48>>,
                   <<50, 48, 50, 49, 49, 50, 50, 57>> },
        next \in { <<>>, <<84>>, <<32>>, <<95>>, <<45>>, <<46>>, <<97>> },
        rest \in { <<>>, <<110, 46, 112, 100, 102>>, <<112, 100, 102>> } }

CallGetLastMod ==
    /\ call.fn = "none"
    /\ \E name \in DateFileNames : \E mtime \in 1..MaxMtime :
         call' = [fn |-> "get_last_mod", args |-> [path_ |-> Path(name), st_mtime |-> mtime],
                  ret |-> get_last_mod(name, mtime)]
    /\ UNCHANGED <<store, worker, busyLeft, callsLeft, fs, sel, qres, run, session>>

MaxPieces == 4      \* links and stretches of other text on one line of an org file

\* where sub first occurs in s (0: nowhere), as str.split(sub, 1) finds it
FindSub(s, sub) ==
    LET at == {i \in 1..(Len(s) - Len(sub) + 1) : SubSeq(s, i, i + Len(sub) - 1) = sub}
    IN  IF at = {} THEN 0 ELSE CHOOSE i \in at : \A j \in at : i <= j

\* s.split(sub, 1)[1], for a sub that occurs in s
AfterSub(s, sub) == SubSeq(s, FindSub(s, sub) + Len(sub), Len(s))

\* s.split(sub, 1)[0], for a sub that occurs in s
BeforeSub(s, sub) == SubSeq(s, 1, FindSub(s, sub) - 1)

OpenLink  == <<91, 91>>     \* "[["
CloseLink == <<93, 93>>     \* "]]"
MidLink   == <<93, 91>>     \* "]["

\* index.py:308-309, _, line = line.split(']]', 1): what is left of the line
\* to scan is what follows the first "]]" of the line
RestOfLine(line) == AfterSub(line, CloseLink)

\* index.py:287-311, the loop of get_org_links: None for an unterminated
\* "[[" and for more than one "][" between the brackets, else the list
RECURSIVE OrgLinksFrom(_, _)
OrgLinksFrom(line, return_) ==
    IF FindSub(line, OpenLink) = 0 THEN [t |-> "list", v |-> return_]
    ELSE LET rest == AfterSub(line, OpenLink)
         IN  IF FindSub(rest, CloseLink) = 0 THEN None
             ELSE LET url_desc == BeforeSub(rest, CloseLink)
                  IN  IF FindSub(url_desc, MidLink) = 0
                      THEN OrgLinksFrom(RestOfLine(line),
                                        Append(return_, [url |-> Str(url_desc), desc |-> None]))
                      ELSE IF FindSub(AfterSub(url_desc, MidLink), MidLink) # 0 THEN None
                      ELSE OrgLinksFrom(RestOfLine(line),
                                        Append(return_,
                                               [url  |-> Str(BeforeSub(url_desc, MidLink)),
                                                desc |-> Str(AfterSub(url_desc, MidLink))]))

get_org_links(line) == OrgLinksFrom(line, <<>>)

\* what a line is made of: the text "a", the text "]", the link "[[u]]" and
\* the link "[[v][d]]"
LinePieces ==
    { [text |-> <<97>>, link |-> <<>>],
      [text |-> <<93>>, link |-> <<>>],
      [text |-> <<91, 91, 117, 93, 93>>,
       link |-> <<[url |-> Str(<<117>>), desc |-> None]>>],
      [text |-> <<91, 91, 118, 93, 91, 100, 93, 93>>,
       link |-> <<[url |-> Str(<<118>>), desc |-> Str(<<100>>)]>>] }

\* the lines of up to n pieces, each with its text and the links it was made of
RECURSIVE LinesUpTo(_)
LinesUpTo(n) ==
    IF n = 0 THEN {[text |-> <<>>, link |-> <<>>]}
    ELSE LET shorter == LinesUpTo(n - 1)
         IN  shorter \cup {[text |-> l.text \o p.text, link |-> l.link \o p.link] :
                             l \in shorter, p \in LinePieces}

CallGetOrgLinks ==
    /\ call.fn = "none"
    /\ \E l \in LinesUpTo(MaxPieces) :
         call' = [fn |-> "get_org_links", args |-> [line |-> Str(l.text), made_of |-> l.link],
                  ret |-> get_org_links(l.text)]
    /\ UNCHANGED <<store, worker, busyLeft, callsLeft, fs, sel, qres, run, session>>

\* the suffixes of the paths _index is called with: "txt", "org", "pdf", "bin"
TaskSuffixes == { <<116, 120, 116>>, <<111, 114, 103>>, <<112, 100, 102>>, <<98, 105, 110>> }

\* _index on a path of any suffix, with or without a date in its name, that
\* exists or not, decodes or not, and whose PDF text can be extracted or not
CallIndexTask ==
    /\ call.fn = "none"
    /\ \E suffix \in TaskSuffixes : \E dated, exists, readable, pdf_ok \in BOOLEAN :
         call' = [fn |-> "_index",
                  args |-> [suffix |-> suffix, dated |-> dated, exists |-> exists,
                            readable |-> readable, pdf_ok |-> pdf_ok],
                  ret |-> index_task(suffix, dated, exists, readable, pdf_ok)]
    /\ UNCHANGED <<store, worker, busyLeft, callsLeft, fs, sel, qres, run, session>>

MaxLineLen == 6     \* characters of a line of brackets and text

\* index.py:287-309: the values the variable line takes at the head of the
\* while loop of get_org_links, up to the return
RECURSIVE ScanOf(_)
ScanOf(line) ==
    IF FindSub(line, OpenLink) = 0 THEN <<line>>
    ELSE LET rest == AfterSub(line, OpenLink)
         IN  IF FindSub(rest, CloseLink) = 0 THEN <<line>>
             ELSE LET url_desc == BeforeSub(rest, CloseLink)
                  IN  IF /\ FindSub(url_desc, MidLink) # 0
                         /\ FindSub(AfterSub(url_desc, MidLink), MidLink) # 0
                      THEN <<line>>
                      ELSE <<line>> \o ScanOf(RestOfLine(line))

\* the lines of up to n characters out of "[", "]" and "u"
RECURSIVE BracketLines(_)
BracketLines(n) ==
    IF n = 0 THEN {<<>>}
    ELSE LET shorter == BracketLines(n - 1)
         IN  shorter \cup {Append(l, ch) : l \in shorter, ch \in {91, 93, 117}}

\* get_org_links on any line of brackets and text, with the lines its loop
\* went through
CallGetOrgLinksAnyLine ==
    /\ call.fn = "none"
    /\ \E line \in BracketLines(MaxLineLen) :
         call' = [fn |-> "get_org_links(any line)", args |-> [line |-> Str(line)],
                  ret |-> get_org_links(line), scan |-> ScanOf(line)]
    /\ UNCHANGED <<store, worker, busyLeft, callsLeft, fs, sel, qres, run, session>>

MaxLines == 4       \* lines of an org file

\* str.strip(): blanks, tabs and line ends are cut off both ends
IsSpace(ch) == ch \in {32, 9, 10, 13}

Strip(s) ==
    LET keep == {i \in DOMAIN s : ~ IsSpace(s[i])}
    IN  IF keep = {} THEN <<>>
        ELSE SubSeq(s, CHOOSE i \in keep : \A j \in keep : i <= j,
                       CHOOSE i \in keep : \A j \in keep : j <= i)

BeginSrc == <<35, 43, 98, 101, 103, 105, 110, 95, 115, 114, 99>>   \* "#+begin_src"
EndSrc   == <<35, 43, 101, 110, 100, 95, 115, 114, 99>>            \* "#+end_src"

\* a marker test that compares the line as it is written
IsMarker_AsWritten(line, marker) ==
    LET lsl == Strip(line)
    IN  Len(lsl) >= Len(marker) /\ SubSeq(lsl, 1, Len(marker)) = marker

\* index.py:183-188: line.strip().lower().startswith(marker)
IsMarker(line, marker) ==
    LET lsl == Lower(Strip(line))
    IN  Len(lsl) >= Len(marker) /\ SubSeq(lsl, 1, Len(marker)) = marker

\* index.py:179-191, filter_source_blocks: the lines it yields
RECURSIVE filter_source_blocks(_, _)
filter_source_blocks(lines, in_block) ==
    IF lines = <<>> THEN <<>>
    ELSE IF IsMarker(Head(lines), BeginSrc) THEN filter_source_blocks(Tail(lines), TRUE)
    ELSE IF IsMarker(Head(lines), EndSrc) THEN filter_source_blocks(Tail(lines), FALSE)
    ELSE IF ~ in_block THEN <<Head(lines)>> \o filter_source_blocks(Tail(lines), in_block)
    ELSE filter_source_blocks(Tail(lines), in_block)

\* ' '.join(parts)
RECURSIVE SpaceJoin(_)
SpaceJoin(parts) ==
    IF parts = <<>> THEN <<>>
    ELSE IF Len(parts) = 1 THEN parts[1]
    ELSE parts[1] \o <<32>> \o SpaceJoin(Tail(parts))

\* index.py:199-201: the links a line adds to links_in_file; None and the
\* empty list are false in "if line_links := get_org_links(path_, clean)"
LineLinks(clean) ==
    LET line_links == get_org_links(clean)
    IN  IF line_links = None THEN <<>> ELSE line_links.v

RECURSIVE LinksInFile(_)
LinksInFile(cleans) ==
    IF cleans = <<>> THEN <<>>
    ELSE LineLinks(Head(cleans)) \o LinksInFile(Tail(cleans))

\* index.py:170-204, get_text_from_org of a file that can be opened, given
\* its lines: the body and the links; no statement of it raises or prints
get_text_from_org(lines) ==
    LET kept   == filter_source_blocks(lines, FALSE)
        cleans == SelectSeq([i \in DOMAIN kept |-> Strip(kept[i])], LAMBDA c : c # <<>>)
    IN  [raised |-> "none", printed |-> <<>>,
         body |-> SpaceJoin(cleans), links |-> LinksInFile(cleans)]

\* lines of an org file: " a\n", "\n", " #+BEGIN_SRC py\n", "#+end_src\n",
\* "[[u]]\n", "x [[w\n" (no closing brackets), "[[v][d][e]]\n" (two "][")
OrgLines ==
    { <<32, 97, 10>>, <<10>>,
      <<32, 35, 43, 66, 69, 71, 73, 78, 95, 83, 82, 67, 32, 112, 121, 10>>,
      <<35, 43, 101, 110, 100, 95, 115, 114, 99, 10>>,
      <<91, 91, 117, 93, 93, 10>>,
      <<120, 32, 91, 91, 119, 10>>,
      <<91, 91, 118, 93, 91, 100, 93, 91, 101, 93, 93, 10>> }

OrgFiles == UNION {[1..n -> OrgLines] : n \in 0..MaxLines}

CallGetTextFromOrg ==
    /\ call.fn = "none"
    /\ \E lines \in OrgFiles :
         call' = [fn |-> "get_text_from_org", args |-> [lines |-> lines],
                  ret |-> get_text_from_org(lines)]
    /\ UNCHANGED <<store, worker, busyLeft, callsLeft, fs, sel, qres, run, session>>

NextHelpers ==
    \/ CallWalker
    \/ CallGetTags
    \/ CallGetLastMod
    \/ CallGetOrgLinks
    \/ CallGetOrgLinksAnyLine
    \/ CallGetTextFromOrg
    \/ CallIndexTask
    \/ CallDone

SpecHelpers == InitOneProcess /\ [][NextHelpers]_vars

\* the directories an entry lies under, from its own directory up to the root
RECURSIVE Ancestors(_, _)
Ancestors(t, i) ==
    IF t[i].parent = 0 THEN {} ELSE {t[i].parent} \cup Ancestors(t, t[i].parent)

\* C11: walker yields no path that lies under a directory whose name is in
\* the skip set, and _walk is never called on such a directory, whatever the
\* tree, the skip set and the suffix mode.
C11_SkipDirExclusion ==
    call.fn = "walker" =>
        LET t == call.args.tree
        IN  /\ \A i \in call.ret.paths :
                 \A d \in Ancestors(t, i) : t[d].name \notin call.args.skip_dirs
            /\ \A d \in call.ret.walked :
                 d # 0 => t[d].name \notin call.args.skip_dirs

\* a tree with a file the filter accepts inside a skipped directory, and
\* another file that is yielded
C11_Witness ==
    /\ call.fn = "walker"
    /\ call.ret.paths # {}
    /\ LET t == call.args.tree
       IN  \E i \in DOMAIN t :
             /\ ~ t[i].is_dir
             /\ IsYielded(t[i].name, call.args.arg_suffix, call.args.include_suffixes)
             /\ \E d \in Ancestors(t, i) : t[d].name \in call.args.skip_dirs


\* where the separator " -- " starts in a stem, from position lo on
SeparatorsFrom(stem, lo) ==
    {i \in lo..(Len(stem) - 3) : SubSeq(stem, i, i + 3) = FILENAME_TAG_SEPARATOR}

\* the pieces of s between blanks that are not empty
TokensOf(s) == SelectSeq(Split(s, 32), LAMBDA t : t # <<>>)

\* the tokens that follow the first separator of a stem; none without one
TokensAfterSeparator(stem) ==
    LET seps == SeparatorsFrom(stem, 1)
    IN  IF seps = {} THEN <<>>
        ELSE LET i == CHOOSE x \in seps : \A y \in seps : x <= y
             IN  TokensOf(SubSeq(stem, i + 4, Len(stem)))

\* C12 as stated: get_tags returns the non-empty space-separated tokens that
\* follow the " -- " separator in the stem of the file name, and no tags when
\* the stem has no separator or only blanks follow it.
C12_TagsFollowSeparator ==
    call.fn = "get_tags" =>
        call.ret = TokensAfterSeparator(PathStem(call.args.path_.v))

\* the tag group of a stem: the text after the first separator that has text
\* on both sides, without the stem's own trailing "." and word characters
\* (when something is left in front of them)
TagGroup(stem) ==
    LET seps == {i \in SeparatorsFrom(stem, 2) : i + 4 <= Len(stem)}
    IN  IF seps = {} THEN <<>>
        ELSE LET i    == CHOOSE x \in seps : \A y \in seps : x <= y
                 rest == SubSeq(stem, i + 4, Len(stem))
                 dots == {j \in DOMAIN rest : rest[j] = 46}
                 last == IF dots = {} THEN 0 ELSE SetMax(dots)
             IN  IF /\ last > 1
                    /\ last < Len(rest)
                    /\ \A j \in (last + 1)..Len(rest) : IsWord(rest[j])
                 THEN SubSeq(rest, 1, last - 1)
                 ELSE rest

\* C12 as amended: get_tags returns the non-empty space-separated tokens of
\* the tag group of the stem, and no tags when the stem has no separator with
\* text before and after it or when the tag group holds only blanks.
C12_TagsOfTagGroup ==
    call.fn = "get_tags" =>
        /\ call.ret = TokensOf(TagGroup(PathStem(call.args.path_.v)))
        /\ SeparatorsFrom(PathStem(call.args.path_.v), 1) = {} => call.ret = <<>>

\* a name such as "n -- t 1 .pdf": two tags, a blank before the suffix
C12_Witness ==
    /\ call.fn = "get_tags"
    /\ call.args.path_.v = <<110, 32, 45, 45, 32, 116, 32, 49, 32, 46, 112, 100, 102>>
    /\ call.ret = << <<116>>, <<49>> >>


\* the number two digits spell
TwoDigits(c1, c2) == 10 * (c1 - 48) + (c2 - 48)

\* the name begins with a date YYYY-MM-DD
BeginsWithDate(name) ==
    /\ Len(name) >= 10
    /\ \A i \in {1, 2, 3, 4, 6, 7, 9, 10} : IsDigit(name[i])
    /\ name[5] = 45 /\ name[8] = 45
    /\ TwoDigits(name[6], name[7]) \in 1..12
    /\ TwoDigits(name[9], name[10]) \in 1..31

\* C13: for a file name that begins with a date, followed by one of "T", " ",
\* "_", "-" or not, get_last_mod returns the date with the time zeroed and
\* not the st_mtime; a name without a leading date gets the st_mtime.
C13_DateFromName ==
    call.fn = "get_last_mod" =>
        LET name == call.args.path_.v
        IN  IF BeginsWithDate(name)
            THEN call.ret = SubSeq(name, 1, 10) \o <<32, 48, 48, 58, 48, 48>>
            ELSE call.ret = MtimeText(call.args.st_mtime)


\* C14: for a line made of well-formed links and other text, get_org_links
\* returns one (url, description or None) pair per link, each link once, in
\* the order of the line.
C14_OneLinkPerOccurrence ==
    call.fn = "get_org_links" =>
        call.ret = [t |-> "list", v |-> call.args.made_of]


-----------------------------------------------------------------------------
(* cli_commands/query.py: _display_query_results and open_file, the browse  *)
(* loop over the projected results                                          *)

\* console.size.height - 1: the rows of one page
PageSizes == {1, 2}

\* what the user types at the page prompt: "", "q", "Quit", "x", "0", "1",
\* "2", "3", "7"
BrowseInputs ==
    { <<>>, <<113>>, <<81, 117, 105, 116>>, <<120>>, <<48>>, <<49>>, <<50>>, <<51>>, <<55>> }

\* what the user types at "Open this file [y/n]?": "", "y", "Yes", "n"
ConfirmInputs == { <<>>, <<121>>, <<89, 101, 115>>, <<110>> }

\* int(next_) raises no ValueError: digits only, among the inputs above
IsIntText(s) == s # <<>> /\ \A i \in DOMAIN s : IsDigit(s[i])

\* int(s) of a text of digits
RECURSIVE IntOf(_)
IntOf(s) == IF s = <<>> THEN 0 ELSE 10 * IntOf(SubSeq(s, 1, Len(s) - 1)) + (s[Len(s)] - 48)

\* the browse loop has ended: how, after which input, and what was opened
Ended(how, next_, chose, opened) ==
    [at |-> "ended", end |-> how, input |-> next_, chose |-> chose, opened |-> opened,
     ith |-> 0, h |-> 0]

\* query.py:135-152: the next page is put on the screen and the prompt shown;
\* without a next page the for loop is over and None is returned
NextPage(s, n, next_) ==
    IF s.ith < n
    THEN [s EXCEPT !.at = "prompt", !.ith = Min(s.ith + s.h, n), !.input = next_]
    ELSE Ended("exhausted", next_, 0, None)

\* query.py:176-180, open_file: Document.select().where(Document.id == doc_id);
\* a doc_id of None compares with no row
DocsById(docs, doc_id) ==
    IF doc_id.t = "int" THEN {d \in docs : <<d.id>> = doc_id.v} ELSE {}

\* adts.py:18-24: QueryCommandParameters(query_string = q), the defaults for
\* the rest ("lastmod" the sort order)
DirectParms(q) ==
    [query_string |-> q, top_n |-> None, suffix |-> <<>>,
     sort_order |-> <<108, 97, 115, 116, 109, 111, 100>>]

\* query.py:47-56, command with a query string given (direct query
\* execution): dbo.query and, if anything matched, _sort_filter_results
QueryDirect ==
    /\ qres.status = "none"
    /\ \A w \in Workers : worker[w].pc = "idle"
    /\ \E query_string \in QueryStrings :
         \E bm25 \in [{f.rowid : f \in {x \in document_fts : FtsMatch(x, query_string)}}
                        -> Bm25Scores] :
           LET results == query(document, document_fts, document_tag, query_string, bm25)
           IN  qres' = IF results = <<>>
                       THEN [status |-> "nothing", parms |-> DirectParms(query_string),
                             merged |-> <<>>, results |-> <<>>]
                       ELSE [status |-> "displayed", parms |-> DirectParms(query_string),
                             merged |-> results,
                             results |-> sort_filter_results(DirectParms(query_string),
                                                             results)]
    /\ UNCHANGED <<store, worker, busyLeft, callsLeft, fs, sel, run, call, session>>

\* query.py:55, _display_query_results is entered with the projected results
BrowseStart ==
    /\ qres.status = "displayed"
    /\ session.at = "none"
    /\ \E h \in PageSizes :
         session' = NextPage([at |-> "start", end |-> "none", input |-> None, chose |-> 0,
                              opened |-> None, ith |-> 0, h |-> h],
                             Len(qres.results), None)
    /\ UNCHANGED <<store, worker, busyLeft, callsLeft, fs, sel, qres, run, call>>

\* query.py:158-174: an answer at the page prompt; an integer goes on into
\* open_file (query.py:176-186) up to its own prompt
BrowseInput ==
    /\ session.at = "prompt"
    /\ \E next_ \in BrowseInputs : \E on_disk \in BOOLEAN :
         LET n == Len(qres.results)
         IN  session' =
               IF next_ = <<>> THEN NextPage(session, n, Str(next_))
               ELSE IF Head(Lower(next_)) = 113 THEN Ended("quit", Str(next_), 0, None)
               ELSE IF ~ IsIntText(next_) THEN NextPage(session, n, Str(next_))
               ELSE LET k == IntOf(next_)
                        \* results[k - 1]: index -1 is the last entry
                        i == IF k = 0 THEN n ELSE k
                    IN  IF i > n THEN Ended("IndexError", Str(next_), k, None)
                        ELSE IF DocsById(document, qres.results[i].doc_id) = {}
                        THEN Ended("no document", Str(next_), k, None)
                        ELSE IF ~ on_disk
                        THEN Ended("FileNotFoundError", Str(next_), k, None)
                        ELSE [session EXCEPT !.at = "confirm", !.input = Str(next_),
                                             !.chose = k]
    /\ UNCHANGED <<store, worker, busyLeft, callsLeft, fs, sel, qres, run, call>>

\* query.py:160-162: KeyboardInterrupt or EOFError at the page prompt
BrowseInterrupt ==
    /\ session.at = "prompt"
    /\ session' = Ended("interrupt", None, 0, None)
    /\ UNCHANGED <<store, worker, busyLeft, callsLeft, fs, sel, qres, run, call>>

\* query.py:193-198: the answer to "Open this file [y/n]?"; after
\* os.system('open ...') the return statement names path_full, which is not
\* defined in open_file: NameError
OpenConfirm ==
    /\ session.at = "confirm"
    /\ \E yes_no_other \in ConfirmInputs :
         LET i   == IF session.chose = 0 THEN Len(qres.results) ELSE session.chose
             doc == CHOOSE d \in DocsById(document, qres.results[i].doc_id) : TRUE
         IN  session' =
               IF yes_no_other # <<>> /\ Head(Lower(yes_no_other)) = 121
               THEN Ended("NameError", session.input, session.chose, Path(doc.path))
               ELSE Ended("declined", session.input, session.chose, None)
    /\ UNCHANGED <<store, worker, busyLeft, callsLeft, fs, sel, qres, run, call>>

\* the command has returned, or its exception has left it
BrowseDone ==
    /\ session.at = "ended"
    /\ session' = NoSession
    /\ qres' = NoQuery
    /\ UNCHANGED <<store, worker, busyLeft, callsLeft, fs, sel, run, call>>

NextBrowse ==
    \/ qres.status = "none" /\ UpsertDoc(1)
    \/ CdeSelect(1)
    \/ CdeDeleteTags(1)
    \/ CdeDeleteLinks(1)
    \/ CdeDeleteFts(1)
    \/ CdeDeleteDoc(1)
    \/ DocSave(1)
    \/ InsertFts(1)
    \/ InsertTag(1)
    \/ InsertLink(1)
    \/ UpsertReturn(1)
    \/ QueryDirect
    \/ qres.status = "nothing" /\ QueryDone
    \/ BrowseStart
    \/ BrowseInput
    \/ BrowseInterrupt
    \/ OpenConfirm
    \/ BrowseDone

SpecBrowse == InitOneProcess /\ [][NextBrowse]_vars


\* an answer was given at the page prompt
Answers(next_) == session.at = "prompt" /\ session'.at # "none" /\ session'.input = Str(next_)

\* C15: at the prompt of a page, empty input shows the next page, a quit
\* token and an interrupt end browsing with nothing opened, and an integer k
\* from 1 to the number of results ends the loop with the k-th result of the
\* displayed list opened, whichever way that result matched (the user
\* confirming, the file being on disk).
C15_BrowseProtocol ==
    [][LET n == Len(qres.results)
       IN  /\ (Answers(<<>>) /\ session.ith < n)
                => (session'.at = "prompt" /\ session'.ith = Min(session.ith + session.h, n))
           /\ \A q \in {<<113>>, <<81, 117, 105, 116>>} :
                Answers(q) => (session'.at = "ended" /\ session'.opened = None)
           /\ (session.at = "prompt" /\ session'.at = "ended" /\ session'.end = "interrupt")
                => session'.opened = None
           /\ \A k \in 1..n :
                Answers(<<48 + k>>) => session'.at \in {"ended", "confirm"}
           /\ (session'.at = "ended" /\ session'.chose \in 1..n
                 /\ session'.end \notin {"declined", "FileNotFoundError"})
                => session'.opened = qres.results[session'.chose].path_full
      ]_vars


-----------------------------------------------------------------------------
(* cli.py: the prompt loop of cli() and the dispatch of execute()           *)

MaxPrompts == 3     \* inputs that are executed in one session

\* what the user enters at "repoman> ": "", ".exit", ".Exit", ".q", ".quit",
\* ".QUIT", ".help", ".nope", "t1", "!1"
Responses ==
    { <<>>,
      <<46, 101, 120, 105, 116>>, <<46, 69, 120, 105, 116>>, <<46, 113>>,
      <<46, 113, 117, 105, 116>>, <<46, 81, 85, 73, 84>>,
      <<46, 104, 101, 108, 112>>, <<46, 110, 111, 112, 101>>,
      <<116, 49>>, <<33, 49>> }

\* cli.py:54: the responses that leave the loop, (".exit", ".q")
ExitResponses == { <<46, 101, 120, 105, 116>>, <<46, 113>> }

\* the functions command_<name> of cli.py: status, tags, links, index,
\* db_create, db_drop, db_clear, help
CommandNames ==
    { <<115, 116, 97, 116, 117, 115>>, <<116, 97, 103, 115>>, <<108, 105, 110, 107, 115>>,
      <<105, 110, 100, 101, 120>>, <<100, 98, 95, 99, 114, 101, 97, 116, 101>>,
      <<100, 98, 95, 100, 114, 111, 112>>, <<100, 98, 95, 99, 108, 101, 97, 114>>,
      <<104, 101, 108, 112>> }

\* cli.py:62-110, execute(verbose, response), for a response that is not
\* empty: what it dispatches to. A query reaches dbo.query with a str, which
\* has no attribute query_string; a document command subscripts
\* LAST_QUERY_RESULT, which no query has set.
execute(response) ==
    IF Head(response) = 46
    THEN IF Tail(response) \in CommandNames THEN "command" ELSE "not a known command"
    ELSE IF Head(response) = 33 THEN "TypeError"
    ELSE "AttributeError"

\* cli.py:37-46: cli() is started and shows its first prompt
CliStart ==
    /\ session.at = "none"
    /\ qres.status = "none"
    /\ session' = [at |-> "main", input |-> None, log |-> <<>>]
    /\ UNCHANGED <<store, worker, busyLeft, callsLeft, fs, sel, qres, run, call>>

\* cli.py:48-59: one response at the main prompt
MainInput ==
    /\ session.at = "main"
    /\ Len(session.log) < MaxPrompts
    /\ \E response \in Responses :
         session' =
           IF Lower(response) \in ExitResponses
           THEN [session EXCEPT !.at = "exited", !.input = Str(response)]
           ELSE IF response = <<>> THEN [session EXCEPT !.input = Str(response)]
           ELSE LET done == execute(response)
                IN  [at    |-> IF done \in {"TypeError", "AttributeError"}
                               THEN "crashed" ELSE "main",
                     input |-> Str(response),
                     log   |-> Append(session.log, <<Str(response), done>>)]
    /\ UNCHANGED <<store, worker, busyLeft, callsLeft, fs, sel, qres, run, call>>

\* cli.py:51-52: KeyboardInterrupt or EOFError (Ctrl-D) at the main prompt
MainInterrupt ==
    /\ session.at = "main"
    /\ session' = [session EXCEPT !.at = "exited", !.input = None]
    /\ UNCHANGED <<store, worker, busyLeft, callsLeft, fs, sel, qres, run, call>>

\* the process is gone
CliGone ==
    /\ session.at \in {"exited", "crashed"}
    /\ session' = NoSession
    /\ UNCHANGED <<store, worker, busyLeft, callsLeft, fs, sel, qres, run, call>>

NextCli ==
    \/ CliStart
    \/ MainInput
    \/ MainInterrupt
    \/ CliGone

SpecCli == InitOneProcess /\ [][NextCli]_vars

\* C16: at the main prompt ".exit" and ".quit" end the session: the loop is
\* left and the input is not executed as a command or a query.
C16_ExitAndQuitLeave ==
    [][(session.at = "main" /\ session'.at # "none" /\ session'.input \in
          {Str(<<46, 101, 120, 105, 116>>), Str(<<46, 113, 117, 105, 116>>)})
         => (session'.at = "exited" /\ session'.log = session.log)]_vars


-----------------------------------------------------------------------------
(* utils.py: the retry wrapper of check_delete_existing under contention    *)
(* that lasts                                                               *)

\* one process; the store may answer "database is locked" to every attempt
InitRetry ==
    /\ document = {}
    /\ document_fts = {}
    /\ document_tag = EmptyBag
    /\ document_link = EmptyBag
    /\ worker = [w \in Workers |-> Idle]
    /\ busyLeft = Tries
    /\ callsLeft = MaxCalls
    /\ fs = NoFiles
    /\ sel = NoSel
    /\ qres = NoQuery
    /\ run = NoRun
    /\ call = NoCall
    /\ session = NoSession

NextRetry ==
    \/ UpsertDoc(1)
    \/ CdeSelect(1)
    \/ CdeDeleteTags(1)
    \/ CdeDeleteLinks(1)
    \/ CdeDeleteFts(1)
    \/ CdeDeleteDoc(1)
    \/ DocSave(1)
    \/ InsertFts(1)
    \/ InsertTag(1)
    \/ InsertLink(1)
    \/ UpsertReturn(1)

SpecRetry == InitRetry /\ [][NextRetry]_vars

\* b to the power n
RECURSIVE Power(_, _)
Power(b, n) == IF n = 0 THEN 1 ELSE b * Power(b, n - 1)

\* the process is inside check_delete_existing
InCheckDelete(r) ==
    r.pc \in {"cde_select", "cde_del_tags", "cde_del_links", "cde_del_fts", "cde_del_doc"}

-----------------------------------------------------------------------------
(* The count index() returns *)

\* the handled paths whose task raised
FailedPaths == {run.stderr[i].n : i \in DOMAIN run.stderr}

\* the paths _index leaves without a document: no extraction strategy
SkippedPaths == {n \in Files : SuffixOfFile[n] \notin GetTextMethods}

\* C18: the count of index() is the number of paths whose document was
\* written: a handled path is counted once when its task neither failed
\* nor skipped the path for lack of an extraction strategy, and not at all
\* otherwise.
C18_CountIsDocumentsWritten ==
    run.count = Cardinality((run.handled \ FailedPaths) \ SkippedPaths)


-----------------------------------------------------------------------------
(* index.py: index() on a batch around the pool threshold, the paths        *)
(* counted, and the store connection of each process                        *)

MaxPaths == 101     \* largest number of paths handed to the pool

\* len(paths_to_index)
BatchSizes == {1} \cup ((PoolThreshold - 1)..MaxPaths)

\* multiprocessing.cpu_count() of the machines considered
PoolCpuCounts == {1, 2}

\* a store connection: 0 is closed, 1 was made by the coordinating process,
\* 1 + w by pool process w
ParentConnection == 1
ConnectionOf(w) == 1 + w

\* the with statement of index.py:99, 159 and cli.py:58 on entry
\* (database.connection_context(): connects when the database is closed,
\* else keeps the connection that is open)
ConnectionContextEnter(conn, own) == IF conn = 0 THEN own ELSE conn

\* a context that leaves the connection as it found it
ConnectionContextExit_LeftOpen(conn, before) == before

\* the with statement on exit: the connection is closed, whoever opened it
ConnectionContextExit(conn, before) == 0

NoPool ==
    [status |-> "none", n_paths |-> 0, cpu_count |-> 0, in_cli |-> FALSE,
     parent_conn |-> 0, taskq |-> 0, inflight |-> <<>>, conn |-> <<>>,
     outq |-> 0, handled |-> 0]

\* cli.py:57-59 and index.py:35-56: the caller (the prompt loop inside its
\* connection context, or a direct caller without a connection) calls
\* index(); _paths_to_index reads the store inside its own context; the
\* pool is made, and a forked pool process starts with the connection state
\* of the parent, a spawned one with a closed database
IndexStart ==
    /\ run = NoRun
    /\ callsLeft > 0
    /\ callsLeft' = callsLeft - 1
    /\ \E in_cli \in BOOLEAN : \E n_paths \in BatchSizes : \E cpu_count \in PoolCpuCounts :
       \E yes \in BOOLEAN : \E fork \in BOOLEAN :
         LET at_call  == IF in_cli THEN ConnectionContextEnter(0, ParentConnection) ELSE 0
             at_pool  == ConnectionContextExit(
                            ConnectionContextEnter(at_call, ParentConnection), at_call)
             n_procs  == pool_size(n_paths, cpu_count)
         IN  run' = IF ~ yes
                    THEN [NoPool EXCEPT !.status = "declined", !.in_cli = in_cli,
                                        !.parent_conn = at_pool]
                    ELSE [NoPool EXCEPT
                            !.status = "pool", !.n_paths = n_paths,
                            !.cpu_count = cpu_count, !.in_cli = in_cli,
                            !.parent_conn = at_pool,
                            !.inflight = [w \in 1..n_procs |-> 0],
                            !.conn = [w \in 1..n_procs |-> IF fork THEN at_pool ELSE 0]]
    /\ UNCHANGED <<store, worker, busyLeft, fs, sel, qres, call, session>>

\* index.py:60-69: the loop of pool.apply_async over the paths, pool.close()
ApplyAsyncAll ==
    /\ run.status = "pool"
    /\ run' = [run EXCEPT !.status = "closed", !.taskq = run.n_paths]
    /\ UNCHANGED <<store, worker, busyLeft, callsLeft, fs, sel, qres, call, session>>

\* a free pool process takes the next task
WorkerTake(w) ==
    /\ run.status = "closed"
    /\ run.inflight[w] = 0
    /\ run.taskq > 0
    /\ run' = [run EXCEPT !.inflight[w] = 1, !.taskq = @ - 1]
    /\ UNCHANGED <<store, worker, busyLeft, callsLeft, fs, sel, qres, call, session>>

\* index.py:123-159: _index up to the connection context; a path without
\* strategy and a file that cannot be read end the task before it
WorkerIndex(w) ==
    /\ run.status = "closed"
    /\ run.inflight[w] = 1
    /\ \E has_text \in BOOLEAN :
         run' = IF has_text
                THEN [run EXCEPT !.inflight[w] = 2,
                                 !.conn[w] = ConnectionContextEnter(@, ConnectionOf(w))]
                ELSE [run EXCEPT !.inflight[w] = 0, !.outq = @ + 1]
    /\ UNCHANGED <<store, worker, busyLeft, callsLeft, fs, sel, qres, call, session>>

\* index.py:159-160: upsert_doc is left (its value or its exception), the
\* context is left, the result is sent
WorkerUpsertExit(w) ==
    /\ run.status = "closed"
    /\ run.inflight[w] = 2
    /\ run' = [run EXCEPT !.inflight[w] = 0, !.outq = @ + 1,
                          !.conn[w] = ConnectionContextExit(@, 0)]
    /\ UNCHANGED <<store, worker, busyLeft, callsLeft, fs, sel, qres, call, session>>

\* index.py:77-82: the result thread of the parent runs the callback
ResultHandled ==
    /\ run.status = "closed"
    /\ run.outq > 0
    /\ run' = [run EXCEPT !.outq = @ - 1, !.handled = @ + 1]
    /\ UNCHANGED <<store, worker, busyLeft, callsLeft, fs, sel, qres, call, session>>

\* index.py:70-74: pool.join() ends, index() returns
JoinReturn ==
    /\ run.status = "closed"
    /\ run.taskq = 0
    /\ run.outq = 0
    /\ \A w \in DOMAIN run.inflight : run.inflight[w] = 0
    /\ run' = [run EXCEPT !.status = "returned"]
    /\ UNCHANGED <<store, worker, busyLeft, callsLeft, fs, sel, qres, call, session>>

\* cli.py:58-59: the caller's context is left
IndexReturn ==
    /\ run.status \in {"returned", "declined"}
    /\ run' = NoRun
    /\ UNCHANGED <<store, worker, busyLeft, callsLeft, fs, sel, qres, call, session>>

NextPool ==
    \/ IndexStart
    \/ ApplyAsyncAll
    \/ \E w \in DOMAIN run.inflight : WorkerTake(w)
    \/ \E w \in DOMAIN run.inflight : WorkerIndex(w)
    \/ \E w \in DOMAIN run.inflight : WorkerUpsertExit(w)
    \/ ResultHandled
    \/ JoinReturn
    \/ IndexReturn

SpecPool == InitOneProcess /\ [][NextPool]_vars


-----------------------------------------------------------------------------
(* The connection and pool size claims *)

\* the pool exists
PoolExists == run.status \in {"pool", "closed", "returned"}

\* C19: a pool process has a connection open exactly while its task is
\* inside the upsert, that connection is one the process made itself, and
\* it is the connection of no other pool process and not the connection of
\* the coordinating process.
C19_OwnConnectionPerWorker ==
    PoolExists =>
      \A w \in DOMAIN run.conn :
        /\ run.conn[w] \in {0, ConnectionOf(w)}
        /\ (run.conn[w] # 0) <=> (run.inflight[w] = 2)
        /\ run.conn[w] # 0 =>
             /\ run.conn[w] # run.parent_conn
             /\ \A v \in DOMAIN run.conn : v # w => run.conn[v] # run.conn[w]

\* C19 happens: index() was called from the prompt loop, and two pool
\* processes are inside their upsert at the same time, each on its own
\* connection
C19_Witness ==
    /\ PoolExists
    /\ run.in_cli
    /\ \E v, w \in DOMAIN run.conn :
          /\ v # w
          /\ run.inflight[v] = 2 /\ run.inflight[w] = 2
          /\ run.conn[v] = ConnectionOf(v) /\ run.conn[w] = ConnectionOf(w)



\* C20: the pool of index() has 2 * cpu_count - 1 processes when more than
\* 100 paths are to be indexed; for 100 paths or fewer it has one process,
\* and at most one task is under way at any time.
C20_PoolSize ==
    PoolExists =>
      /\ Len(run.inflight) = IF run.n_paths > 100 THEN 2 * run.cpu_count - 1 ELSE 1
      /\ run.n_paths <= 100 => Cardinality({w \in DOMAIN run.inflight : run.inflight[w] # 0}) <= 1

\* C20 happens: 101 paths on a machine of two cores are worked on by a pool
\* of three processes, all three with a task
C20_Witness ==
    /\ PoolExists
    /\ run.n_paths = 101
    /\ run.cpu_count = 2
    /\ Len(run.inflight) = 3
    /\ \A w \in DOMAIN run.inflight : run.inflight[w] # 0


-----------------------------------------------------------------------------
(* The org file claims *)

\* where sub occurs in s
Occurs(s, sub) == {i \in 1..(Len(s) - Len(sub) + 1) : SubSeq(s, i, i + Len(sub) - 1) = sub}

\* a "[[" with no "]]" after it
Unterminated(line) ==
    \E i \in Occurs(line, OpenLink) : \A j \in Occurs(line, CloseLink) : j < i + 2

\* a "[[" whose text up to the next "]]" holds more than one "]["
ManySeparators(line) ==
    \E i \in Occurs(line, OpenLink) : \E j \in Occurs(line, CloseLink) :
        /\ j >= i + 2
        /\ \A k \in Occurs(line, CloseLink) : k >= i + 2 => j <= k
        /\ Cardinality(Occurs(SubSeq(line, i + 2, j - 1), MidLink)) > 1

Malformed(line) == Unterminated(line) \/ ManySeparators(line)

\* the line is a marker line: trimmed, it starts with the marker, case ignored
MarkerLine(line, marker) ==
    LET t == Strip(line)
    IN  /\ Len(t) >= Len(marker)
        /\ \A k \in DOMAIN marker : Lower(<<t[k]>>) = <<marker[k]>>

\* line i is inside a source block: a begin marker precedes it and no end
\* marker lies between the two
InSourceBlock(lines, i) ==
    \E j \in 1..(i - 1) :
        /\ MarkerLine(lines[j], BeginSrc)
        /\ \A k \in (j + 1)..(i - 1) : ~ MarkerLine(lines[k], EndSrc)

Contributes(lines, i) ==
    /\ Strip(lines[i]) # <<>>
    /\ ~ MarkerLine(lines[i], BeginSrc)
    /\ ~ MarkerLine(lines[i], EndSrc)
    /\ ~ InSourceBlock(lines, i)

\* the trimmed contributing lines in file order, joined by blanks
ExpectedBody(lines) ==
    LET trimmed == [i \in DOMAIN lines |-> IF Contributes(lines, i) THEN Strip(lines[i]) ELSE <<>>]
    IN  SpaceJoin(SelectSeq(trimmed, LAMBDA c : c # <<>>))

\* C21: for an org file with a line that holds an unterminated "[[" or a
\* bracket pair with more than one "][", get_text_from_org reports an error
\* (it raises or it prints one) instead of leaving links out without a word,
\* and the body of the file is still extracted.
C21_MalformedLinkIsReported ==
    (/\ call.fn = "get_text_from_org"
     /\ \E i \in DOMAIN call.args.lines : Malformed(call.args.lines[i]))
       => /\ (call.ret.raised # "none" \/ call.ret.printed # <<>>)
          /\ call.ret.body = ExpectedBody(call.args.lines)

\* C22: the body of an org file is the blank-joined text of its trimmed
\* lines that are not blank, are no begin_src or end_src marker line (case
\* ignored, after trimming) and are not inside a source block, in file
\* order.
C22_SourceBlocksSuppressed ==
    call.fn = "get_text_from_org" => call.ret.body = ExpectedBody(call.args.lines)

\* C22 happens: " #+BEGIN_SRC py", "[[u]]", "#+end_src", " a" has the body "a"
C22_Witness ==
    /\ call.fn = "get_text_from_org"
    /\ Len(call.args.lines) = 4
    /\ MarkerLine(call.args.lines[1], BeginSrc) /\ call.args.lines[1][2] = 35
    /\ Strip(call.args.lines[2]) # <<>> /\ ~ Contributes(call.args.lines, 2)
    /\ MarkerLine(call.args.lines[3], EndSrc)
    /\ Contributes(call.args.lines, 4)
    /\ call.ret.body = <<97>>

\* C23: every line of an org file is scanned for links, the lines inside a
\* source block too: the link list of a file without malformed markup
\* holds the links of all its lines, in file order.
C23_EveryLineIsScanned ==
    (/\ call.fn = "get_text_from_org"
     /\ \A i \in DOMAIN call.args.lines : ~ Malformed(call.args.lines[i]))
       => call.ret.links =
            LinksInFile([i \in DOMAIN call.args.lines |-> Strip(call.args.lines[i])])



\* C30: get_org_links ends on every line: the text left to scan gets
\* shorter with every turn of its loop, whatever stray, nested or unbalanced
\* brackets the line holds, and it returns no more links than the line has
\* occurrences of "[[".
C30_ScanEndsAndIsBounded ==
    call.fn = "get_org_links(any line)" =>
        /\ \A k \in 1..(Len(call.scan) - 1) : Len(call.scan[k + 1]) < Len(call.scan[k])
        /\ call.ret # None =>
              Len(call.ret.v) <= Cardinality(Occurs(call.args.line.v, OpenLink))


-----------------------------------------------------------------------------
(* The claims about one _index task *)

\* C24: a PDF whose text cannot be extracted costs the batch nothing: the
\* PDF strategy catches the error and prints it, and _index goes on to store
\* the document with an empty body (None handed to upsert_doc, which writes
\* "") instead of raising.
C24_BrokenPdfIsStoredEmpty ==
    (/\ call.fn = "_index"
     /\ call.args.suffix = <<112, 100, 102>>
     /\ call.args.exists /\ ~ call.args.pdf_ok)
       => /\ call.ret.printed = <<SorryInvalidPdf>>
          /\ call.ret.body = None
          /\ call.ret.outcome = "upsert_doc"


-----------------------------------------------------------------------------
(* index.py: an indexing run over a store that holds documents *)

\* a process that upserts documents of existing files, one call at a time,
\* and runs index() when no upsert is under way; files may go away
NextReindex ==
    \/ \E n \in Files : FsRemove(n)
    \/ run.status = "none" /\ UpsertFile(1)
    \/ CdeSelect(1)
    \/ CdeDeleteTags(1)
    \/ CdeDeleteLinks(1)
    \/ CdeDeleteFts(1)
    \/ CdeDeleteDoc(1)
    \/ DocSave(1)
    \/ InsertFts(1)
    \/ InsertTag(1)
    \/ InsertLink(1)
    \/ UpsertReturn(1)
    \/ worker[1].pc = "idle" /\ IndexCall
    \/ Submit
    \/ PoolClose
    \/ \E w \in DOMAIN run.inflight : TaskStart(w)
    \/ \E w \in DOMAIN run.inflight : TaskRun(w)
    \/ HandleResult
    \/ PoolJoin
    \/ IndexDone

SpecReindex == InitIndex /\ [][NextReindex]_vars

\* pool process w ends its task in this step
TaskEnds(w) ==
    /\ run.inflight[w] > 0
    /\ Len(run'.outq) = Len(run.outq) + 1

\* C28: a task whose path has no extraction strategy ends before the
\* upsert (it returns None, or get_last_mod has raised for a file that is
\* gone), and a task that ends that way or with the error of its text
\* extraction changes no row of the store: a document stored earlier for
\* the path is kept.
C28_NoWriteWithoutText ==
    [][\A w \in DOMAIN run.inflight :
          TaskEnds(w) =>
             LET n   == run.inflight[w]
                 res == run'.outq[Len(run'.outq)]
             IN  /\ n \in SkippedPaths => res.outcome \in {"None", "FileNotFoundError"}
                 /\ res.outcome \in {"None", "FileNotFoundError", "UnicodeDecodeError"}
                      => store' = store
      ]_vars

\* C28 happens: the store holds a document of a path, and the task of that
\* path has ended with the error of its text extraction
C28_Witness ==
    /\ run.status \in {"submitting", "closed"}
    /\ \E i \in DOMAIN run.outq :
          /\ run.outq[i].outcome = "UnicodeDecodeError"
          /\ \E d \in document : d.path = FilePath(run.outq[i].n)
          /\ \E f \in document_fts : f.path = FilePath(run.outq[i].n)


-----------------------------------------------------------------------------
(* index.py: cleanup *)

\* Path(doc.path).exists()
PathExists(tree, p) == \E n \in Files : FilePath(n) = p /\ tree[n] # 0

\* index.py:320: the documents whose file is gone
GoneDocs(docs, tree) == {d \in docs : ~ PathExists(tree, d.path)}

\* index.py:314-323, cleanup(): doc.delete_instance(recursive=True) deletes
\* the rows of the tables that reference the document by a foreign key
\* (document_tag, document_link) and the document row; document_fts has no
\* such key (db_logical.py:22-30) and is left as it is
Cleanup ==
    /\ call.fn = "none"
    /\ run.status = "none"
    /\ worker[1].pc = "idle"
    /\ callsLeft > 0
    /\ callsLeft' = callsLeft - 1
    /\ LET gone == GoneDocs(document, fs)
           ids  == {d.id : d \in gone}
       IN  /\ document' = document \ gone
           /\ document_tag' = [r \in {x \in DOMAIN document_tag : x.doc_id \notin ids}
                                 |-> document_tag[r]]
           /\ document_link' = [r \in {x \in DOMAIN document_link : x.doc_id \notin ids}
                                  |-> document_link[r]]
           /\ call' = [fn |-> "cleanup", args |-> <<>>, ret |-> Cardinality(gone)]
    /\ UNCHANGED <<document_fts, worker, busyLeft, fs, sel, qres, run, session>>

\* a process that upserts documents, runs index() and runs cleanup(), one
\* after the other, while files go away
NextCleanup ==
    \/ \E n \in Files : FsRemove(n)
    \/ run.status = "none" /\ call.fn = "none" /\ UpsertFile(1)
    \/ CdeSelect(1)
    \/ CdeDeleteTags(1)
    \/ CdeDeleteLinks(1)
    \/ CdeDeleteFts(1)
    \/ CdeDeleteDoc(1)
    \/ DocSave(1)
    \/ InsertFts(1)
    \/ InsertTag(1)
    \/ InsertLink(1)
    \/ UpsertReturn(1)
    \/ worker[1].pc = "idle" /\ call.fn = "none" /\ IndexCall
    \/ Submit
    \/ PoolClose
    \/ \E w \in DOMAIN run.inflight : TaskStart(w)
    \/ \E w \in DOMAIN run.inflight : TaskRun(w)
    \/ HandleResult
    \/ PoolJoin
    \/ IndexDone
    \/ Cleanup
    \/ CallDone

SpecCleanup == InitIndex /\ [][NextCleanup]_vars

\* index() has gone through _paths_to_index in this step
ChangeDetectionRan ==
    run.status = "none" /\ run'.status \in {"submitting", "declined"}

CleanupRan == call.fn = "none" /\ call'.fn = "cleanup"

\* C25: a document whose file is gone is deleted when an index run or a
\* cleanup pass comes across it: after the change detection of index() and
\* after cleanup() the store holds no document of a file that is gone, the
\* documents of the files that exist are kept, and cleanup() returns the
\* number of documents it deleted.
C25_MissingFilesAreDeleted ==
    [][/\ (ChangeDetectionRan \/ CleanupRan) =>
             /\ GoneDocs(document', fs') = {}
             /\ \A d \in document : PathExists(fs, d.path) => d \in document'
       /\ CleanupRan => call'.ret = Cardinality(document) - Cardinality(document')
      ]_vars


-----------------------------------------------------------------------------
(* The claims about the rows of the store *)

\* the store holds one complete document for the path of a: its Document
\* row, its full-text row and its tag and link rows, of one version
CompleteFor(a) ==
    \E v \in DocInputs :
        /\ v.path_ = a.path_
        /\ \E d \in DocsOfPath(str(a.path_)) : ReplacedBy(v, d.id)

\* the store holds no row for the path of a
NoRowsFor(a) ==
    /\ DocsOfPath(str(a.path_)) = {}
    /\ \A f \in document_fts : f.path # a.path_.v

\* C26: upsert_doc is all or nothing for its path: when it has raised, the
\* store holds one complete document of the path (the version stored before
\* or the new one), or no row at all for a path that was not stored before;
\* never a document that lacks rows, and never nothing where a version was.
C26_UpsertAllOrNothing ==
    \A w \in Workers :
        worker[w].pc = "failed" =>
            \/ CompleteFor(worker[w].a_doc)
            \/ /\ ~ worker[w].existed
               /\ worker[w].docs = <<>>
               /\ NoRowsFor(worker[w].a_doc)



\* C27: when no operation is under way, every tag row, link row and
\* full-text row belongs to a Document row of the store, and every Document
\* row has exactly one full-text row.
C27_ReferentialIntegrity ==
    (\A w \in Workers : worker[w].pc = "idle") =>
        /\ \A r \in DOMAIN document_tag : \E d \in document : d.id = r.doc_id
        /\ \A r \in DOMAIN document_link : \E d \in document : d.id = r.doc_id
        /\ \A f \in document_fts : \E d \in document : d.id = f.rowid
        /\ \A d \in document : Cardinality({f \in document_fts : f.rowid = d.id}) = 1


-----------------------------------------------------------------------------
(* The browse loop and integers outside the list *)

\* C29: an integer answered at the page prompt that is not one of 1 .. the
\* number of results opens no document and raises nothing: the loop goes on
\* or ends without an error, and open_file is not entered.
C29_OnlyListedNumbersOpen ==
    [][\A next_ \in BrowseInputs :
          (/\ Answers(next_)
           /\ IsIntText(next_)
           /\ IntOf(next_) \notin 1..Len(qres.results))
             => /\ session'.at # "confirm"
                /\ session'.at = "ended" =>
                      /\ session'.end \notin {"IndexError", "FileNotFoundError", "NameError"}
                      /\ session'.opened = None
      ]_vars

=============================================================================
